---- MODULE Spec2Model ----
(***************************************************************************)
(* State-machine model of GP_graber.py: the session orchestrator main(),   *)
(* the two keep-alive supervisors, the Escape listener, download_files,    *)
(* and the Windows Wi-Fi switch loop.  One action per atomic segment of    *)
(* code between two suspension points (await) of the asyncio scheduler.    *)
(***************************************************************************)
EXTENDS Integers, Sequences, FiniteSets, TLC

\* ---------------------------------------------------------------- bounds
\* longest media listing the camera reports in the model
MaxFiles == 2
\* seconds the connection loop of the automatic join may run (config wifi_wait)
JoinWait == 2
\* seconds the connection loop of the home-network restore may run
RestoreWait == 2
\* number of program runs over the same disk and camera (SpecRuns)
MaxRuns == 2

\* ---------------------------------------------------------------- constants
\* connect_spam_interval of _connection_loop
connect_spam_interval == 4

\* event-loop clock (seconds) when a connection loop is entered
LoopClock0 == 10

NoNet == ""
GoProSsid == "GP24500456"

\* original_ssid.startswith("GP") over the network names of the model
StartsWithGP(ssid) == ssid = GoProSsid

\* Remote file descriptors {d, n} of the listing, in the order the camera
\* lists them; the same name may occur in two DCIM directories.
CameraOrder ==
    << [d |-> "100GOPRO", n |-> "GH010001.MP4"],
       [d |-> "100GOPRO", n |-> "GH010002.MP4"],
       [d |-> "101GOPRO", n |-> "GH010001.MP4"] >>

Range(s) == { s[i] : i \in 1..Len(s) }

RemoteFiles == Range(CameraOrder)

RawNames == { f.n : f \in RemoteFiles }

\* name produced by process_media for renamed / merged raw files
ProcessedName == "2024-05-21_15_30.mp4"

\* valid_modes of main()
valid_modes == {"full", "rename_only", "download_only", "touch_only", "process_only"}
\* the local `mode` of main() when load_config raised (unreadable file, a
\* non-integer wifi_wait or session_gap_hours) before line 1607 assigned it
Unassigned == "unassigned"
\* what the configuration gives for 'mode': a valid mode, another word, or
\* nothing because loading it failed
ConfigModes == valid_modes \cup {"invalid", Unassigned}

\* the listings of at most MaxFiles files the camera may hold
Listings ==
    { SelectSeq(CameraOrder, LAMBDA f : f \in T) :
        T \in { U \in SUBSET RemoteFiles : Cardinality(U) <= MaxFiles } }

\* the camera's content before the first listing of the first run observed it
Unobserved == << [d |-> "?", n |-> "?"] >>

\* summary of a run kept for the next one: the transfer was complete, and the
\* listing the camera gave
NoRun == [completed |-> FALSE, remote |-> << >>]

VARIABLES
    pc,                        \* position of main()
    mainEnd,                   \* how the main sequence (the try body) ended
    mode, is_windows, home_wifi,
    original_ssid,
    hostNet,                   \* active Wi-Fi network of the host
    netChanged,                \* history: hostNet was changed during the run
    probeOk,                   \* history: a GET /gopro/camera/state succeeded in this run
    discovered,                \* history: the BLE scan matched a device in this run
    ble_written,               \* history: a command was written to the camera in this run
    ble_outcome,               \* history: how connect_ble ended in this run
    ap_outcome,                \* history: how control_wifi_ap(enable=True) ended
    wifi_creds,                \* credentials read over BLE: "none", "ssid", "both"; "used" once consumed
    connected_to_gopro_wifi,
    all_downloads_completed,
    downloaded_count,
    downloaded_files_meta,
    all_files_on_camera_meta,
    \* locals of download_files
    dl_all_files_on_camera_meta, dl_downloaded_count, dl_downloaded_files_meta,
    files_to_download,
    dlIndex,                   \* loop index i of download_files (1-based)
    partial,                   \* name of the file open for writing, or ""
    camera,                    \* files on the camera
    localFiles,                \* names present in the destination directory
    sentinel,                  \* .disk_keep_alive exists
    stop_disk_keep_alive, stop_wifi_keep_alive,
    disk_task, wifi_task,      \* "none" = handle is None
    late_beats,                \* supervisors that wrote or pinged with their stop event set
    listener,                  \* escape_listener_task
    cancelPending,             \* main_task.cancel() requested, not delivered
    powerAwake,                \* SetThreadExecutionState(... REQUIRED) in force
    sw,                        \* frame of switch_wifi_windows
    files_on_disk_and_camera,
    delIndex,
    run,
    \* history variables
    cleanupLog,                \* cleanup actions in the order they started
    requested,                 \* download requests issued, in order
    deleted,                   \* delete requests issued, in order
    dlOutcome,                 \* how download_files ended
    localAtList,               \* destination directory when the listing was filtered
    reqAtCancel,               \* Len(requested) when a stream was cancelled
    cancelledFile,             \* file being streamed when cancelled
    postProcessed,             \* process_media / touch_files invocations
    prevRun,                   \* summary of the previous run (SpecRuns)
    \* the BLE command layer (SpecBle)
    command_status,            \* GoProState.command_status: pairs opcode, future
    futures,                   \* the asyncio futures created, by identity
    cmd,                       \* frame of control_wifi_ap / sleep_camera
    ble_connected,             \* the client is connected, notifications enabled
    calls,                     \* command functions called so far
    lateFrames,                \* history: kinds of frames the handler ignored
    \* switch_wifi_windows in seconds (SpecSw)
    wl,                        \* frame of _connection_loop
    air,                       \* the host's Wi-Fi and the camera as the loop meets them
    \* config.ini (SpecCfg)
    config_ini,                \* its lines, and its lines before save_config_updates
    \* the deletion decision (SpecDel)
    del_frame,                 \* main() lines 1768-1814 with the user's answer
    lk                         \* main()'s client variable and the BLE connections

\* the variables of main(), its tasks and its environment
mainVars == << pc, mainEnd, mode, is_windows, home_wifi, original_ssid, hostNet,
           netChanged, probeOk, discovered, ble_written, ble_outcome, ap_outcome, wifi_creds,
           connected_to_gopro_wifi,
           all_downloads_completed, downloaded_count, downloaded_files_meta,
           all_files_on_camera_meta, dl_all_files_on_camera_meta,
           dl_downloaded_count, dl_downloaded_files_meta,
           files_to_download, dlIndex, partial,
           camera, localFiles, sentinel, stop_disk_keep_alive,
           stop_wifi_keep_alive, disk_task, wifi_task, listener,
           cancelPending, powerAwake, sw, files_on_disk_and_camera, delIndex,
           run, cleanupLog, requested, deleted, dlOutcome, localAtList,
           reqAtCancel, cancelledFile, postProcessed, prevRun, late_beats >>

\* the variables of the BLE command layer
bleVars == << command_status, futures, cmd, ble_connected, calls, lateFrames >>

\* the variables of switch_wifi_windows measured in seconds
swVars == << wl, air >>

\* the variables of the components that main() uses through their result only
cmpVars == << bleVars, swVars, config_ini, del_frame, lk >>

vars == << mainVars, cmpVars >>

\* variable groups for UNCHANGED
cfgVars  == << mode, is_windows, run, prevRun >>
ssidVars == << home_wifi, original_ssid, wifi_creds >>
netVars  == << hostNet, netChanged, probeOk >>
bleHist  == << discovered, ble_written, ble_outcome, ap_outcome >>
resVars  == << all_downloads_completed, downloaded_count,
               downloaded_files_meta, all_files_on_camera_meta >>
flagVars == << connected_to_gopro_wifi, resVars >>
dlVars   == << dl_all_files_on_camera_meta, dl_downloaded_count,
               dl_downloaded_files_meta, files_to_download, dlIndex, partial,
               requested, dlOutcome, localAtList, reqAtCancel, cancelledFile >>
diskVars == << camera, localFiles >>
supVars  == << sentinel, stop_disk_keep_alive, stop_wifi_keep_alive,
               disk_task, wifi_task >>
lsnVars  == << listener, cancelPending >>
delVars  == << files_on_disk_and_camera, delIndex, deleted >>
clnVars  == << cleanupLog, postProcessed >>

\* frame of switch_wifi_windows: ssid, password given, verify_gopro, the
\* clock, last_spam_time and end_time of _connection_loop, and the caller
NoSw == [target |-> "", pw |-> FALSE, verify |-> FALSE, now |-> 0, last |-> 0,
         end |-> 0, ret |-> "none"]

\* positions of main() inside the try body at which the task is suspended
TrySuspensions ==
    { "get_ssid", "connect_ble", "enable_ap", "ble_disconnect", "scan",
      "sw_profile", "sw_loop", "manual", "stabilize", "dl_list", "dl_open",
      "dl_stream", "ask_delete", "pre_delete_ping", "delete", "shutdown" }

\* main() is suspended inside the try body (the connection loop is also
\* run by the restore step of the finally block)
InTry == pc \in TrySuspensions /\ sw.ret # "restore"

\* main() resumes normally at position p (no cancellation is pending)
AtTry(p) == pc = p /\ ~cancelPending

\* GoProState.__init__ line 221 and the BLE client before connect_ble
NoCmd == [fn |-> "none", pc |-> "idle", fut |-> 0, writes |-> 0, out |-> "none"]

\* _connection_loop before it is called
NoLoop == [pc |-> "idle", verify_gopro |-> FALSE, timeout |-> 0, now |-> 0,
           end_time |-> 0, last_spam_time |-> 0, matched |-> FALSE,
           probe |-> "none", result |-> "none", sent |-> << >>,
           iter |-> 0, sent_iter |-> << >>, polls |-> 0,
           password |-> FALSE, saved0 |-> FALSE, profile_ops |-> << >>]

SwInit ==
    /\ wl = NoLoop
    /\ air = [scenario |-> "none", joined |-> FALSE, saved |-> FALSE]

\* config.ini not yet read
NoFile == [lines |-> << >>, before |-> << >>, saved |-> FALSE]

\* main() before step 5 (line 1768)
NoDel == [pc |-> "idle", delete_after_download |-> "", answer |-> "",
          should_delete |-> FALSE, files |-> 0, sent |-> 0]

\* main() before connect_ble: no client object exists.  client is main()'s
\* variable and local the one of the running command function (0 = None);
\* made counts the BleakClient objects created, open holds those whose
\* connection is up
NoLink == [pc |-> "connect_ble", fn |-> "none", client |-> 0, local |-> 0,
           made |-> 0, open |-> {}]

BleInit ==
    /\ command_status = {}
    /\ futures = << >>
    /\ cmd = NoCmd
    /\ ble_connected = FALSE
    /\ calls = 0
    /\ lateFrames = {}

Init ==
    /\ pc = "start"
    /\ mainEnd = "none"
    /\ mode \in ConfigModes
    /\ is_windows \in BOOLEAN
    \* off Windows neither value is read by the program
    /\ home_wifi \in (IF is_windows THEN {"", "Cafe"} ELSE {""})
    /\ original_ssid = NoNet
    /\ hostNet \in (IF is_windows THEN {"Home", NoNet} ELSE {"Home"})
    /\ netChanged = FALSE
    /\ probeOk = FALSE
    /\ discovered = FALSE
    /\ ble_written = FALSE
    /\ ble_outcome = "none"
    /\ ap_outcome = "none"
    /\ wifi_creds = "none"
    /\ connected_to_gopro_wifi = FALSE
    /\ all_downloads_completed = FALSE
    /\ downloaded_count = 0
    /\ downloaded_files_meta = << >>
    /\ all_files_on_camera_meta = << >>
    /\ dl_all_files_on_camera_meta = << >>
    /\ dl_downloaded_count = 0
    /\ dl_downloaded_files_meta = << >>
    /\ files_to_download = << >>
    /\ dlIndex = 0
    /\ partial = ""
    /\ camera = Unobserved
    /\ localFiles \in {{}, {CameraOrder[1].n}}
    /\ sentinel = FALSE
    /\ stop_disk_keep_alive = FALSE
    /\ stop_wifi_keep_alive = FALSE
    /\ disk_task = "none"
    /\ wifi_task = "none"
    /\ late_beats = {}
    /\ listener = "none"
    /\ cancelPending = FALSE
    /\ powerAwake = FALSE
    /\ sw = NoSw
    /\ files_on_disk_and_camera = << >>
    /\ delIndex = 0
    /\ run = 1
    /\ cleanupLog = << >>
    /\ requested = << >>
    /\ deleted = << >>
    /\ dlOutcome = "none"
    /\ localAtList = {}
    /\ reqAtCancel = 0
    /\ cancelledFile = ""
    /\ postProcessed = 0
    /\ prevRun = NoRun
    /\ BleInit
    /\ SwInit
    /\ config_ini = NoFile
    /\ del_frame = NoDel
    /\ lk = NoLink

\* ------------------------------------------------------------- main(): try
\* leave the try body: "normal" falls through, "return" is an early return,
\* "cancelled" and "exception" pass through the except clauses; all go to
\* the finally block
EndTry(how) ==
    /\ pc' = "c_listener"
    /\ mainEnd' = how

\* main() lines 1591-1617: power request, listener start, load_config,
\* mode validation; an exception of load_config or the ValueError of an
\* invalid mode is caught at line 1829
MainStart ==
    /\ pc = "start"
    /\ powerAwake' = is_windows
    /\ listener' = IF is_windows THEN "running" ELSE listener
    /\ IF mode \notin valid_modes
         THEN EndTry("exception")
         ELSE /\ pc' = IF is_windows THEN "get_ssid" ELSE "branch"
              /\ UNCHANGED mainEnd
    /\ UNCHANGED << cfgVars, cmpVars, bleHist, late_beats, ssidVars, netVars, flagVars, dlVars, diskVars,
                    supVars, cancelPending, sw, delVars, clnVars >>

\* main() lines 1649-1658: record the active network, adopt it as home_wifi
GetOriginalSsid ==
    /\ AtTry("get_ssid")
    /\ original_ssid' = hostNet
    /\ home_wifi' = IF home_wifi = "" /\ hostNet # NoNet /\ ~StartsWithGP(hostNet)
                       THEN hostNet ELSE home_wifi
    /\ pc' = "branch"
    /\ UNCHANGED << mainEnd, cfgVars, cmpVars, bleHist, late_beats, wifi_creds, netVars, flagVars, dlVars,
                    diskVars, supVars, lsnVars, powerAwake, sw, delVars,
                    clnVars >>

\* main() lines 1660-1668: process_only skips connection and download
ModeBranch ==
    /\ pc = "branch"
    /\ IF mode = "process_only"
         THEN /\ all_downloads_completed' = TRUE
              /\ downloaded_count' = 1
              /\ EndTry("normal")
         ELSE /\ pc' = "connect_ble"
              /\ UNCHANGED << mainEnd, all_downloads_completed, downloaded_count >>
    /\ UNCHANGED << cfgVars, cmpVars, bleHist, late_beats, ssidVars, netVars, connected_to_gopro_wifi,
                    downloaded_files_meta, all_files_on_camera_meta, dlVars,
                    diskVars, supVars, lsnVars, powerAwake, sw, delVars,
                    clnVars >>

\* variant of ConnectBle in which main() goes on without a matched device
ConnectBleContinuesUnmatched ==
    /\ AtTry("connect_ble")
    /\ discovered' = FALSE
    /\ ble_written' = FALSE
    /\ ble_outcome' = "ok"
    /\ pc' = "enable_ap"
    /\ wifi_creds' = "none"
    /\ UNCHANGED << mainEnd, cfgVars, cmpVars, late_beats, ap_outcome,
                    home_wifi, original_ssid, netVars,
                    flagVars, dlVars, diskVars, supVars, lsnVars, powerAwake, sw,
                    delVars, clnVars >>

\* the error texts by which connect_ble recognises a pairing out of sync
\* (line 335), and two other texts of a BleakError
AuthDesyncTexts == {"Insufficient Authentication", "Protocol Error 0x05"}
NotifyErrorTexts == AuthDesyncTexts \cup {"Not connected", "Unlikely Error"}

\* variant of NotifyErrorVerdict that treats every BleakError alike
NotifyErrorVerdictAlwaysFatal(text) == "notify_error"

\* connect_ble lines 334-352: a BleakError of start_notify whose text names
\* an authentication failure returns (None, None, None), any other one
\* raises RuntimeError
NotifyErrorVerdict(text) ==
    IF text \in AuthDesyncTexts THEN "auth_desync" ELSE "notify_error"

\* connect_ble (lines 249-376) as seen by main() lines 1668-1684: no device
\* matched in three scans ("not_found"), or a device matched and the link was
\* lost or services were missing ("none"), or enabling notifications failed
\* with the pairing out of sync ("auth_desync"): all return (None, None,
\* None) and main() returns.  Another failure of start_notify
\* ("notify_error") raises RuntimeError before any command is written; any
\* other failure ("error") raises it before or after the first command is
\* written (line 355); success carries the credentials read
ConnectBle ==
    /\ AtTry("connect_ble")
    /\ \E result \in {"not_found", "none", "notify", "error", "ok"},
          text \in NotifyErrorTexts,
          creds \in {"none", "ssid", "both"}, written \in BOOLEAN :
         LET outcome == IF result = "notify" THEN NotifyErrorVerdict(text)
                        ELSE result
         IN  /\ ble_outcome' = IF result = "notify" THEN text ELSE result
             /\ discovered' = (outcome # "not_found")
             /\ ble_written' = IF outcome = "ok" THEN TRUE
                               ELSE IF outcome = "error" THEN written
                               ELSE FALSE
             /\ IF outcome \in {"not_found", "none", "auth_desync"}
                THEN EndTry("return") /\ UNCHANGED wifi_creds
                ELSE IF outcome \in {"error", "notify_error"}
                THEN EndTry("exception") /\ UNCHANGED wifi_creds
                ELSE /\ pc' = "enable_ap"
                     /\ wifi_creds' = creds
                     /\ UNCHANGED mainEnd
    /\ UNCHANGED << cfgVars, cmpVars, late_beats, ap_outcome,
                    home_wifi, original_ssid, netVars, flagVars,
                    dlVars, diskVars, supVars, lsnVars, powerAwake, sw,
                    delVars, clnVars >>

\* the ways control_wifi_ap fails: a non-zero status (line 421), no response
\* within ten seconds (line 423), the write failing again in the retry
\* (line 415)
ApFailures == {"status", "timeout", "write"}

\* variant of ControlWifiAp in which main() goes on after a failure
ControlWifiApIgnoresFailure ==
    /\ AtTry("enable_ap")
    /\ \E result \in {"ok"} \cup ApFailures :
         /\ ap_outcome' = result
         /\ pc' = "ble_disconnect" /\ UNCHANGED mainEnd
         /\ ble_written' = (ble_written \/ result # "write")
    /\ UNCHANGED << cfgVars, cmpVars, late_beats, discovered, ble_outcome, ssidVars, netVars, flagVars, dlVars, diskVars,
                    supVars, lsnVars, powerAwake, sw, delVars, clnVars >>

\* control_wifi_ap(enable=True) (lines 401-424) as seen by main() line 1688:
\* returns the client, or raises RuntimeError on a non-zero status or on a
\* timeout, or lets the BleakError of the second write through; main()
\* catches each at line 1829
ControlWifiAp ==
    /\ AtTry("enable_ap")
    /\ \E result \in {"ok"} \cup ApFailures :
         /\ ap_outcome' = result
         /\ IF result = "ok" THEN pc' = "ble_disconnect" /\ UNCHANGED mainEnd
                             ELSE EndTry("exception")
         /\ ble_written' = (ble_written \/ result # "write")
    /\ UNCHANGED << cfgVars, cmpVars, late_beats, discovered, ble_outcome, ssidVars, netVars, flagVars, dlVars, diskVars,
                    supVars, lsnVars, powerAwake, sw, delVars, clnVars >>

\* variant of SwCall that passes verify_gopro=False whatever the caller asks
SwCallUnverified(ssid, password, verify, caller) ==
    sw' = [NoSw EXCEPT !.target = ssid, !.pw = password, !.verify = FALSE,
                       !.ret = caller]

\* the call switch_wifi_windows(ssid, password, timeout, verify_gopro)
SwCall(ssid, password, verify, caller) ==
    sw' = [NoSw EXCEPT !.target = ssid, !.pw = password, !.verify = verify,
                       !.ret = caller]

\* main() lines 1690-1716: BLE disconnect, pauses, choice of the join path
BleDisconnect ==
    /\ AtTry("ble_disconnect")
    /\ IF ~is_windows
         THEN pc' = "manual" /\ UNCHANGED sw
         ELSE IF wifi_creds # "none"
         THEN pc' = "sw_profile" /\ SwCall(GoProSsid, wifi_creds = "both", TRUE, "join")
         ELSE pc' = "scan" /\ UNCHANGED sw
    \* the SSID is not read again; only the password is, on the scan path
    /\ wifi_creds' = IF is_windows /\ wifi_creds = "none" THEN wifi_creds ELSE "used"
    /\ UNCHANGED << mainEnd, cfgVars, cmpVars, bleHist, late_beats, home_wifi, original_ssid, netVars,
                    flagVars, dlVars, diskVars, supVars, lsnVars, powerAwake,
                    delVars, clnVars >>

\* main() lines 1714-1716 with find_wifi_ssid_windows_native: the scan finds
\* the camera's SSID or returns None
ScanWifi ==
    /\ AtTry("scan")
    /\ \E found \in BOOLEAN :
         IF found
         THEN pc' = "sw_profile" /\ SwCall(GoProSsid, wifi_creds = "both", TRUE, "join")
         ELSE pc' = "manual" /\ UNCHANGED sw
    /\ wifi_creds' = "used"
    /\ UNCHANGED << mainEnd, cfgVars, cmpVars, bleHist, late_beats, home_wifi, original_ssid, netVars,
                    flagVars, dlVars, diskVars, supVars, lsnVars, powerAwake,
                    delVars, clnVars >>

\* switch_wifi_windows returns `result` to its caller: main() lines 1706-1718
\* (join) or lines 1891-1897 (restore, result unused)
SwReturn(result) ==
    /\ sw' = NoSw
    /\ IF sw.ret = "join"
         THEN /\ connected_to_gopro_wifi' = result
              /\ pc' = IF result THEN "stabilize" ELSE "manual"
         ELSE /\ pc' = "done"
              /\ UNCHANGED connected_to_gopro_wifi

\* _manage_profile_and_connect lines 1150-1215 and _connection_loop lines
\* 1104-1125: with a password the profile is re-created (failure returns
\* False); without one a saved profile must exist (else False); then the
\* loop opens the WLAN handle, whose failure raises RuntimeError out of
\* switch_wifi_windows: into the except clause of main() for the join, out of
\* the finally block for the restore
SwProfile ==
    /\ pc = "sw_profile"
    /\ sw.ret = "join" => ~cancelPending
    /\ \E outcome \in {"ok", "no_profile", "wlan_error"} :
         IF outcome = "ok"
         THEN /\ pc' = "sw_loop"
              /\ sw' = [sw EXCEPT !.now = LoopClock0, !.last = 0,
                                  !.end = LoopClock0 +
                                     (IF sw.ret = "join" THEN JoinWait ELSE RestoreWait)]
              /\ UNCHANGED << mainEnd, connected_to_gopro_wifi >>
         ELSE IF outcome = "no_profile"
         THEN SwReturn(FALSE) /\ UNCHANGED mainEnd
         ELSE /\ sw' = NoSw
              /\ IF sw.ret = "join" THEN EndTry("exception")
                                    ELSE pc' = "raised" /\ UNCHANGED mainEnd
              /\ UNCHANGED connected_to_gopro_wifi
    /\ UNCHANGED << cfgVars, cmpVars, bleHist, late_beats, ssidVars, netVars, resVars, dlVars, diskVars,
                    supVars, lsnVars, powerAwake, delVars, clnVars >>

\* networks the host may be on one second after WlanConnect was requested
OsOutcome(target) == {hostNet, target}

\* _connection_loop lines 1127-1145: one iteration (WlanConnect when due,
\* sleep 1 s, poll the active SSID, verify the camera when asked), or the
\* exit with False once end_time has passed
SwLoop ==
    /\ pc = "sw_loop"
    /\ sw.ret = "join" => ~cancelPending
    /\ IF sw.now < sw.end
         THEN \E net \in OsOutcome(sw.target), probe \in BOOLEAN :
                /\ hostNet' = net
                /\ netChanged' = (netChanged \/ net # hostNet)
                \* verify_gopro_connection is called only on a name match
                /\ probeOk' = (probeOk \/ (net = sw.target /\ sw.verify /\ probe))
                /\ IF net = sw.target /\ (~sw.verify \/ probe)
                     THEN SwReturn(TRUE)
                     ELSE /\ sw' = [sw EXCEPT
                                 !.now = sw.now + 1,
                                 !.last = IF sw.now - sw.last >= connect_spam_interval
                                             THEN sw.now ELSE sw.last]
                          /\ UNCHANGED << pc, connected_to_gopro_wifi >>
         ELSE SwReturn(FALSE) /\ UNCHANGED netVars
    /\ UNCHANGED << mainEnd, cfgVars, cmpVars, bleHist, late_beats, ssidVars, resVars, dlVars, diskVars,
                    supVars, lsnVars, powerAwake, delVars, clnVars >>

\* the user joins the camera's network by hand while main() waits for Enter
UserJoinsManually ==
    /\ AtTry("manual")
    /\ hostNet # GoProSsid
    /\ hostNet' = GoProSsid
    /\ netChanged' = TRUE
    /\ UNCHANGED << probeOk, pc, mainEnd, cfgVars, cmpVars, bleHist, late_beats, ssidVars, flagVars, dlVars, diskVars,
                    supVars, lsnVars, powerAwake, sw, delVars, clnVars >>

\* main() lines 1725-1745: one turn of the manual-join loop: 'x' returns,
\* anything else probes /gopro/camera/state
ManualJoin ==
    /\ AtTry("manual")
    /\ \E input \in {"x", "enter"}, probe \in BOOLEAN :
         /\ IF input = "x"
              THEN EndTry("return") /\ UNCHANGED connected_to_gopro_wifi
              ELSE IF probe /\ hostNet = GoProSsid
              THEN /\ connected_to_gopro_wifi' = TRUE
                   /\ pc' = "stabilize"
                   /\ UNCHANGED mainEnd
              ELSE UNCHANGED << pc, mainEnd, connected_to_gopro_wifi >>
         /\ probeOk' = (probeOk \/ (input # "x" /\ probe /\ hostNet = GoProSsid))
    /\ UNCHANGED << cfgVars, cmpVars, bleHist, late_beats, ssidVars, hostNet, netChanged, resVars, dlVars, diskVars,
                    supVars, lsnVars, powerAwake, sw, delVars, clnVars >>

\* main() lines 1748-1761 and download_files lines 454-466: stabilisation
\* pause, start of both keep-alive tasks, mkdir, then the listing request.
\* The event loop runs a new task up to its first await as soon as main()
\* suspends on the listing request, so both tasks are then in their wait
\* (wifi_keep_alive_task line 812, disk_keep_alive_task line 835).
StartTransfer ==
    /\ AtTry("stabilize")
    /\ wifi_task' = IF connected_to_gopro_wifi THEN "wait" ELSE wifi_task
    /\ disk_task' = "wait"
    /\ pc' = "dl_list"
    /\ UNCHANGED << mainEnd, cfgVars, cmpVars, bleHist, late_beats, ssidVars, netVars, flagVars, dlVars,
                    diskVars, sentinel, stop_disk_keep_alive,
                    stop_wifi_keep_alive, lsnVars, powerAwake, sw, delVars,
                    clnVars >>

\* variant of FilesToDownload without the local existence check
FilesToDownloadUnfiltered(all_files, local) ==
    all_files

\* download_files lines 481-484: remote files whose name does not exist in
\* the destination directory, in listing order
FilesToDownload(all_files, local) ==
    SelectSeq(all_files, LAMBDA f : f.n \notin local)

\* main() lines 1816-1825 reached: power the camera down or leave the try body
AfterDeletion ==
    \E shutdown_after_complete \in {"yes", "no"} :
        IF shutdown_after_complete = "yes"
        THEN pc' = "shutdown" /\ UNCHANGED mainEnd
        ELSE EndTry("normal")

\* variant of MainAfterDownload that decides about deletion whether or not
\* the transfer was complete
MainAfterDownloadIgnoresCompleted(count, completed, meta, all, local) ==
    /\ downloaded_count' = count
    /\ all_downloads_completed' = completed
    /\ downloaded_files_meta' = meta
    /\ all_files_on_camera_meta' = all
    /\ stop_disk_keep_alive' = TRUE
    /\ IF all # << >>
         THEN /\ files_on_disk_and_camera' = SelectSeq(all, LAMBDA f : f.n \in local)
              /\ \E delete_after_download \in {"yes", "ask", "no"} :
                    IF delete_after_download = "yes"
                    THEN pc' = "pre_delete_ping" /\ UNCHANGED mainEnd
                    ELSE IF delete_after_download = "ask"
                    THEN pc' = "ask_delete" /\ UNCHANGED mainEnd
                    ELSE AfterDeletion
         ELSE /\ UNCHANGED files_on_disk_and_camera
              /\ AfterDeletion

\* main() lines 1761-1800: download_files returned (count, completed, meta,
\* all); stop the disk keep-alive, then decide about deletion.  `local` is
\* the destination directory at that moment.
MainAfterDownload(count, completed, meta, all, local) ==
    /\ downloaded_count' = count
    /\ all_downloads_completed' = completed
    /\ downloaded_files_meta' = meta
    /\ all_files_on_camera_meta' = all
    /\ stop_disk_keep_alive' = TRUE
    /\ IF completed /\ all # << >>
         THEN /\ files_on_disk_and_camera' = SelectSeq(all, LAMBDA f : f.n \in local)
              /\ \E delete_after_download \in {"yes", "ask", "no"} :
                    IF delete_after_download = "yes"
                    THEN pc' = "pre_delete_ping" /\ UNCHANGED mainEnd
                    ELSE IF delete_after_download = "ask"
                    THEN pc' = "ask_delete" /\ UNCHANGED mainEnd
                    ELSE AfterDeletion
         ELSE /\ UNCHANGED files_on_disk_and_camera
              /\ AfterDeletion

\* download_files stays inside its loop: nothing of main() changes
StayInDownload ==
    UNCHANGED << mainEnd, resVars, stop_disk_keep_alive, files_on_disk_and_camera >>

\* download_files lines 466-492: the listing request and the pending set
DlList ==
    /\ AtTry("dl_list")
    /\ \E outcome \in {"ok", "request_error", "http_status"},
          listing \in (IF camera = Unobserved THEN Listings ELSE {camera}) :
         IF outcome = "request_error"
         THEN /\ dlOutcome' = "failed"
              /\ MainAfterDownload(0, FALSE, << >>, << >>, localFiles)
              /\ UNCHANGED << dl_all_files_on_camera_meta, files_to_download,
                              dlIndex, requested, localAtList, camera >>
         ELSE IF outcome = "http_status"
         THEN /\ dlOutcome' = "raised"
              /\ EndTry("exception")
              /\ UNCHANGED << resVars, stop_disk_keep_alive,
                              files_on_disk_and_camera,
                              dl_all_files_on_camera_meta, files_to_download,
                              dlIndex, requested, localAtList, camera >>
         ELSE LET pending == FilesToDownload(listing, localFiles)
              IN  /\ camera' = listing
                  /\ dl_all_files_on_camera_meta' = listing
                  /\ files_to_download' = pending
                  /\ localAtList' = localFiles
                  /\ IF pending = << >>
                       THEN /\ dlOutcome' = "complete"
                            /\ MainAfterDownload(0, TRUE, << >>, listing, localFiles)
                            /\ UNCHANGED << dlIndex, requested >>
                       ELSE /\ dlIndex' = 1
                            /\ requested' = Append(requested, pending[1])
                            /\ pc' = "dl_open"
                            /\ StayInDownload
                            /\ UNCHANGED dlOutcome
    /\ UNCHANGED << cfgVars, cmpVars, bleHist, late_beats, ssidVars, netVars, connected_to_gopro_wifi,
                    dl_downloaded_count, dl_downloaded_files_meta, partial,
                    reqAtCancel, cancelledFile, localFiles, sentinel,
                    stop_wifi_keep_alive, disk_task, wifi_task, lsnVars,
                    powerAwake, sw, delIndex, deleted, clnVars >>

\* variant of DlFailed that returns without removing local_path
DlFailedKeepsFile(filename) ==
    /\ UNCHANGED localFiles
    /\ partial' = ""
    /\ dlOutcome' = "failed"
    /\ MainAfterDownload(dl_downloaded_count, FALSE, dl_downloaded_files_meta,
                         dl_all_files_on_camera_meta, localFiles)

\* variant of DlFailed that reports the transfer as complete
DlFailedReportsComplete(filename) ==
    /\ localFiles' = localFiles \ {filename}
    /\ partial' = ""
    /\ dlOutcome' = "failed"
    /\ MainAfterDownload(dl_downloaded_count, TRUE, dl_downloaded_files_meta,
                         dl_all_files_on_camera_meta, localFiles \ {filename})

\* download_files lines 543-564: the handler of a failed (not cancelled)
\* download removes local_path if it exists and returns the partial result
DlFailed(filename) ==
    /\ localFiles' = localFiles \ {filename}
    /\ partial' = ""
    /\ dlOutcome' = "failed"
    /\ MainAfterDownload(dl_downloaded_count, FALSE, dl_downloaded_files_meta,
                         dl_all_files_on_camera_meta, localFiles \ {filename})

\* download_files lines 504-510: the GET of file i is answered; on success
\* the local file is opened for writing (created or truncated)
DlOpen ==
    /\ AtTry("dl_open")
    /\ LET filename == files_to_download[dlIndex].n
       IN \E outcome \in {"ok", "error", "http_status"} :
            IF outcome = "ok"
            THEN /\ localFiles' = localFiles \cup {filename}
                 /\ partial' = filename
                 /\ pc' = "dl_stream"
                 /\ StayInDownload
                 /\ UNCHANGED dlOutcome
            ELSE IF outcome = "error"
            THEN DlFailed(filename)
            ELSE /\ dlOutcome' = "raised"
                 /\ EndTry("exception")
                 /\ UNCHANGED << resVars, stop_disk_keep_alive,
                                 files_on_disk_and_camera, localFiles, partial >>
    /\ UNCHANGED << cfgVars, cmpVars, bleHist, late_beats, ssidVars, netVars, connected_to_gopro_wifi,
                    dl_all_files_on_camera_meta, dl_downloaded_count,
                    dl_downloaded_files_meta, files_to_download, dlIndex,
                    requested, localAtList, reqAtCancel, cancelledFile, camera,
                    sentinel, stop_wifi_keep_alive, disk_task, wifi_task,
                    lsnVars, powerAwake, sw, delIndex, deleted, clnVars >>

\* download_files lines 515-542 and 565: the stream of file i ends, either
\* complete (count it, go on to file i+1 or return) or with a read/IO error
DlStream ==
    /\ AtTry("dl_stream")
    /\ LET file_info == files_to_download[dlIndex]
           count == dl_downloaded_count + 1
           meta == Append(dl_downloaded_files_meta, file_info)
       IN \E outcome \in {"complete", "error"} :
            IF outcome = "error"
            THEN /\ DlFailed(file_info.n)
                 /\ UNCHANGED << dl_downloaded_count, dl_downloaded_files_meta,
                                 dlIndex, requested >>
            ELSE /\ partial' = ""
                 /\ dl_downloaded_count' = count
                 /\ dl_downloaded_files_meta' = meta
                 /\ UNCHANGED localFiles
                 /\ IF dlIndex < Len(files_to_download)
                      THEN /\ dlIndex' = dlIndex + 1
                           /\ requested' = Append(requested, files_to_download[dlIndex + 1])
                           /\ pc' = "dl_open"
                           /\ StayInDownload
                           /\ UNCHANGED dlOutcome
                      ELSE /\ dlOutcome' = "complete"
                           /\ MainAfterDownload(count, TRUE, meta,
                                                dl_all_files_on_camera_meta, localFiles)
                           /\ UNCHANGED << dlIndex, requested >>
    /\ UNCHANGED << cfgVars, cmpVars, bleHist, late_beats, ssidVars, netVars, connected_to_gopro_wifi,
                    dl_all_files_on_camera_meta, files_to_download, localAtList,
                    reqAtCancel, cancelledFile, camera, sentinel,
                    stop_wifi_keep_alive, disk_task, wifi_task, lsnVars,
                    powerAwake, sw, delIndex, deleted, clnVars >>

\* main() lines 1784-1800 and 1813: the answer to the deletion prompt
\* (get_y_n_with_timeout_windows or stdin); a timeout counts as "no"
AskDelete ==
    /\ AtTry("ask_delete")
    /\ \E should_delete \in BOOLEAN :
         IF should_delete THEN pc' = "pre_delete_ping" /\ UNCHANGED mainEnd
                          ELSE AfterDeletion
    /\ UNCHANGED << cfgVars, cmpVars, bleHist, late_beats, ssidVars, netVars, flagVars, dlVars, diskVars,
                    supVars, lsnVars, powerAwake, sw, delVars, clnVars >>

\* main() lines 1802-1812 and delete_files_from_camera lines 569-583: the
\* extra keep-alive ping was answered (or failed); the first delete request
PreDeletePing ==
    /\ AtTry("pre_delete_ping")
    /\ IF files_on_disk_and_camera = << >>
         THEN AfterDeletion /\ UNCHANGED << delIndex, deleted >>
         ELSE /\ delIndex' = 1
              /\ deleted' = Append(deleted, files_on_disk_and_camera[1])
              /\ pc' = "delete"
              /\ UNCHANGED mainEnd
    /\ UNCHANGED << cfgVars, cmpVars, bleHist, late_beats, ssidVars, netVars, flagVars, dlVars, diskVars,
                    supVars, lsnVars, powerAwake, sw, files_on_disk_and_camera,
                    clnVars >>

\* variant of DeleteStep in which a failed delete request ends the batch
DeleteStepAbortsOnFailure ==
    /\ AtTry("delete")
    /\ \E ok \in BOOLEAN :
         /\ camera' = IF ok
                      THEN SelectSeq(camera, LAMBDA f : f # files_on_disk_and_camera[delIndex])
                      ELSE camera
         /\ IF ok /\ delIndex < Len(files_on_disk_and_camera)
              THEN /\ delIndex' = delIndex + 1
                   /\ deleted' = Append(deleted, files_on_disk_and_camera[delIndex + 1])
                   /\ UNCHANGED << pc, mainEnd >>
              ELSE AfterDeletion /\ UNCHANGED << delIndex, deleted >>
    /\ UNCHANGED << cfgVars, cmpVars, bleHist, late_beats, ssidVars, netVars, flagVars, dlVars, localFiles,
                    supVars, lsnVars, powerAwake, sw, files_on_disk_and_camera,
                    clnVars >>

\* delete_files_from_camera lines 576-589: the delete request of file
\* delIndex was answered (the camera removed the file) or failed (logged);
\* the next request is issued, or the batch is over
DeleteStep ==
    /\ AtTry("delete")
    /\ \E ok \in BOOLEAN :
         camera' = IF ok
                   THEN SelectSeq(camera, LAMBDA f : f # files_on_disk_and_camera[delIndex])
                   ELSE camera
    /\ IF delIndex < Len(files_on_disk_and_camera)
         THEN /\ delIndex' = delIndex + 1
              /\ deleted' = Append(deleted, files_on_disk_and_camera[delIndex + 1])
              /\ UNCHANGED << pc, mainEnd >>
         ELSE AfterDeletion /\ UNCHANGED << delIndex, deleted >>
    /\ UNCHANGED << cfgVars, cmpVars, bleHist, late_beats, ssidVars, netVars, flagVars, dlVars, localFiles,
                    supVars, lsnVars, powerAwake, sw, files_on_disk_and_camera,
                    clnVars >>

\* main() lines 1817-1825 with sleep_camera: the power-down command was sent
\* or failed; every Exception is logged and the try body ends
Shutdown ==
    /\ AtTry("shutdown")
    /\ EndTry("normal")
    /\ UNCHANGED << cfgVars, cmpVars, bleHist, late_beats, ssidVars, netVars, flagVars, dlVars, diskVars,
                    supVars, lsnVars, powerAwake, sw, delVars, clnVars >>

\* ------------------------------------------------------------ cancellation
\* positions at which main() is suspended, the other tasks running: the
\* awaits of the try body and of the finally block (the waits for the two
\* keep-alive tasks, the connection loop of the restore)
MainSuspended == pc \in TrySuspensions \cup {"c_disk_wait", "c_wifi_wait"}

\* input_and_cancel_handler_windows lines 1544-1552: the listener task,
\* which runs while main() is suspended, reads Escape, cancels the main
\* task (not done) and ends
EscapeKey ==
    /\ listener = "running"
    /\ MainSuspended
    /\ ~cancelPending
    /\ cancelPending' = TRUE
    /\ listener' = "done"
    /\ UNCHANGED << pc, mainEnd, cfgVars, cmpVars, bleHist, late_beats, ssidVars, netVars, flagVars, dlVars,
                    diskVars, supVars, powerAwake, sw, delVars, clnVars >>

\* Ctrl+C: asyncio.run (line 1903) cancels the main task
SigInt ==
    /\ InTry
    /\ ~cancelPending
    /\ cancelPending' = TRUE
    /\ UNCHANGED << pc, mainEnd, cfgVars, cmpVars, bleHist, late_beats, ssidVars, netVars, flagVars, dlVars,
                    diskVars, supVars, listener, powerAwake, sw, delVars,
                    clnVars >>

\* variant of DlCancelHandler that re-raises without removing local_path
DlCancelKeepsFile ==
    IF pc \in {"dl_open", "dl_stream"}
    THEN LET filename == files_to_download[dlIndex].n
         IN  /\ cancelledFile' = IF pc = "dl_stream" THEN filename ELSE cancelledFile
             /\ reqAtCancel' = Len(requested)
             /\ dlOutcome' = "cancelled"
             /\ EndTry("cancelled")
             /\ UNCHANGED << localFiles, partial, resVars, stop_disk_keep_alive,
                             files_on_disk_and_camera >>
    ELSE /\ dlOutcome' = IF pc = "dl_list" THEN "cancelled" ELSE dlOutcome
         /\ EndTry("cancelled")
         /\ UNCHANGED << localFiles, partial, cancelledFile, reqAtCancel,
                         resVars, stop_disk_keep_alive,
                         files_on_disk_and_camera >>

\* download_files lines 543-561 under CancelledError / KeyboardInterrupt,
\* raised while the GET of file i is awaited or its body is streamed: remove
\* local_path if it exists (the file was closed when the exception left the
\* with block), then re-raise.  Outside the loop nothing handles it.
DlCancelHandler ==
    IF pc \in {"dl_open", "dl_stream"}
    THEN LET filename == files_to_download[dlIndex].n
         IN  /\ localFiles' = localFiles \ {filename}
             /\ partial' = ""
             /\ cancelledFile' = IF pc = "dl_stream" THEN filename ELSE cancelledFile
             /\ reqAtCancel' = Len(requested)
             /\ dlOutcome' = "cancelled"
             /\ EndTry("cancelled")
             /\ UNCHANGED << resVars, stop_disk_keep_alive,
                             files_on_disk_and_camera >>
    ELSE /\ dlOutcome' = IF pc = "dl_list" THEN "cancelled" ELSE dlOutcome
         /\ EndTry("cancelled")
         /\ UNCHANGED << localFiles, partial, cancelledFile, reqAtCancel,
                         resVars, stop_disk_keep_alive,
                         files_on_disk_and_camera >>

\* CancelledError is raised at the suspension point of main(); it unwinds
\* through download_files' handler when inside it, and through the except
\* clause of main() line 1827 into the finally block
MainCancelled ==
    /\ cancelPending
    /\ InTry
    /\ cancelPending' = FALSE
    /\ DlCancelHandler
    /\ sw' = NoSw
    /\ UNCHANGED << cfgVars, cmpVars, bleHist, late_beats, ssidVars, netVars, connected_to_gopro_wifi,
                    dl_all_files_on_camera_meta, dl_downloaded_count,
                    dl_downloaded_files_meta, files_to_download, dlIndex,
                    requested, localAtList, camera, sentinel,
                    stop_wifi_keep_alive, disk_task, wifi_task, listener,
                    powerAwake, delIndex, deleted, clnVars >>

\* asyncio.wait_for (lines 417, 440, 1258) when the cancellation meets an
\* inner future that is already done (the response or the key arrived and
\* main() has not resumed yet): up to Python 3.11 wait_for returns the result
\* and drops the CancelledError; from 3.12 on it raises it (MainCancelled).
\* main() goes on as without a cancellation.  The listener sleeps 0.1 s
\* between a key it queues and the next one it reads, so that at the
\* deletion prompt only Ctrl+C can meet the delivered key.
CancelSwallowed ==
    /\ cancelPending
    /\ InTry
    /\ cancelPending' = FALSE
    /\ \/ /\ pc = "enable_ap"
          /\ \E result \in {"ok", "status"} :
               /\ ap_outcome' = result
               /\ IF result = "ok"
                    THEN pc' = "ble_disconnect" /\ UNCHANGED mainEnd
                    ELSE EndTry("exception")
          /\ ble_written' = TRUE
          /\ UNCHANGED << discovered, ble_outcome >>
       \/ /\ pc = "shutdown"
          /\ EndTry("normal")
          /\ UNCHANGED bleHist
       \/ /\ pc = "ask_delete" /\ is_windows /\ listener # "done"
          /\ \E should_delete \in BOOLEAN :
               IF should_delete THEN pc' = "pre_delete_ping" /\ UNCHANGED mainEnd
                                ELSE AfterDeletion
          /\ UNCHANGED bleHist
    /\ UNCHANGED << cfgVars, cmpVars, late_beats, ssidVars, netVars, flagVars,
                    dlVars, diskVars, supVars, listener, powerAwake, sw,
                    delVars, clnVars >>

\* ------------------------------------------------------- keep-alive tasks
Running(task) == task \in {"wait", "timeout", "ping"}

\* variant of DiskFinally that leaves the sentinel file in place
DiskFinallyKeepsFile == UNCHANGED sentinel

\* disk_keep_alive_task lines 843-846: the finally clause removes the
\* sentinel file if it exists
DiskFinally == sentinel' = FALSE

\* disk_keep_alive_task lines 834-836: the 60 s timer of wait_for expires
\* while the task waits with the stop event unset; the TimeoutError is
\* delivered when the task is next scheduled
DiskTimeout ==
    /\ disk_task = "wait"
    /\ ~stop_disk_keep_alive
    /\ disk_task' = "timeout"
    /\ UNCHANGED << pc, mainEnd, cfgVars, cmpVars, bleHist, late_beats, ssidVars, netVars, flagVars, dlVars,
                    diskVars, sentinel, stop_disk_keep_alive, stop_wifi_keep_alive,
                    wifi_task, lsnVars, powerAwake, sw, delVars, clnVars >>

\* disk_keep_alive_task lines 836-842: the except clause of the timed-out
\* wait writes the sentinel without reading the stop event again; the write
\* succeeds and the loop condition is tested next, or it raises and the task
\* ends through its finally clause
DiskTouch ==
    /\ disk_task = "timeout"
    /\ late_beats' = IF stop_disk_keep_alive THEN late_beats \cup {"disk"}
                                             ELSE late_beats
    /\ \E ok \in BOOLEAN :
         IF ok THEN sentinel' = TRUE /\ disk_task' = "wait"
               ELSE DiskFinally /\ disk_task' = "failed"
    /\ UNCHANGED << pc, mainEnd, cfgVars, cmpVars, bleHist, ssidVars, netVars, flagVars, dlVars,
                    diskVars, stop_disk_keep_alive, stop_wifi_keep_alive,
                    wifi_task, lsnVars, powerAwake, sw, delVars, clnVars >>

\* disk_keep_alive_task lines 832-835, 843-846: the stop event woke the
\* wait; the loop ends and the sentinel is removed
DiskStop ==
    /\ disk_task = "wait"
    /\ stop_disk_keep_alive
    /\ disk_task' = "done"
    /\ DiskFinally
    /\ UNCHANGED << pc, mainEnd, cfgVars, cmpVars, bleHist, late_beats, ssidVars, netVars, flagVars, dlVars,
                    diskVars, stop_disk_keep_alive, stop_wifi_keep_alive,
                    wifi_task, lsnVars, powerAwake, sw, delVars, clnVars >>

\* wifi_keep_alive_task lines 811-813: the 15 s timer of wait_for expires
\* while the task waits with the stop event unset; the TimeoutError is
\* delivered when the task is next scheduled
WifiTimeout ==
    /\ wifi_task = "wait"
    /\ ~stop_wifi_keep_alive
    /\ wifi_task' = "timeout"
    /\ UNCHANGED << pc, mainEnd, cfgVars, cmpVars, bleHist, late_beats, ssidVars, netVars, flagVars, dlVars,
                    diskVars, sentinel, stop_disk_keep_alive,
                    stop_wifi_keep_alive, disk_task, lsnVars, powerAwake, sw,
                    delVars, clnVars >>

\* wifi_keep_alive_task lines 813-817: the except clause of the timed-out
\* wait sends the ping request without reading the stop event again
WifiPing ==
    /\ wifi_task = "timeout"
    /\ wifi_task' = "ping"
    /\ late_beats' = IF stop_wifi_keep_alive THEN late_beats \cup {"wifi"}
                                             ELSE late_beats
    /\ UNCHANGED << pc, mainEnd, cfgVars, cmpVars, bleHist, ssidVars, netVars, flagVars, dlVars,
                    diskVars, sentinel, stop_disk_keep_alive,
                    stop_wifi_keep_alive, disk_task, lsnVars, powerAwake, sw,
                    delVars, clnVars >>

\* wifi_keep_alive_task lines 809, 817-820: the ping was answered or failed
\* (RequestError is logged); the loop condition is tested again
WifiPingDone ==
    /\ wifi_task = "ping"
    /\ wifi_task' = IF stop_wifi_keep_alive THEN "done" ELSE "wait"
    /\ UNCHANGED << pc, mainEnd, cfgVars, cmpVars, bleHist, late_beats, ssidVars, netVars, flagVars, dlVars,
                    diskVars, sentinel, stop_disk_keep_alive,
                    stop_wifi_keep_alive, disk_task, lsnVars, powerAwake, sw,
                    delVars, clnVars >>

\* wifi_keep_alive_task lines 809-812, 820: the stop event woke the wait
WifiStop ==
    /\ wifi_task = "wait"
    /\ stop_wifi_keep_alive
    /\ wifi_task' = "done"
    /\ UNCHANGED << pc, mainEnd, cfgVars, cmpVars, bleHist, late_beats, ssidVars, netVars, flagVars, dlVars,
                    diskVars, sentinel, stop_disk_keep_alive,
                    stop_wifi_keep_alive, disk_task, lsnVars, powerAwake, sw,
                    delVars, clnVars >>

\* ------------------------------------------------------ main(): finally
\* variant of CleanListener that leaves the listener task running
CleanListenerSkipsCancel ==
    /\ pc = "c_listener"
    /\ cleanupLog' = IF listener # "none" THEN Append(cleanupLog, "listener")
                                           ELSE cleanupLog
    /\ pc' = "c_power"
    /\ UNCHANGED << mainEnd, cfgVars, cmpVars, bleHist, late_beats, ssidVars, netVars, flagVars, dlVars,
                    diskVars, supVars, lsnVars, powerAwake, sw, delVars,
                    postProcessed >>

\* main() lines 1833-1841: cancel the Escape listener and wait for it
CleanListener ==
    /\ pc = "c_listener"
    /\ cleanupLog' = IF listener # "none" THEN Append(cleanupLog, "listener")
                                           ELSE cleanupLog
    /\ listener' = IF listener = "running" THEN "done" ELSE listener
    /\ pc' = "c_power"
    /\ UNCHANGED << mainEnd, cfgVars, cmpVars, bleHist, late_beats, ssidVars, netVars, flagVars, dlVars,
                    diskVars, supVars, cancelPending, powerAwake, sw, delVars,
                    postProcessed >>

\* main() lines 1844-1847: give power management back to the system
CleanPower ==
    /\ pc = "c_power"
    /\ cleanupLog' = IF is_windows THEN Append(cleanupLog, "power") ELSE cleanupLog
    /\ powerAwake' = IF is_windows THEN FALSE ELSE powerAwake
    /\ pc' = "c_disk"
    /\ UNCHANGED << mainEnd, cfgVars, cmpVars, bleHist, late_beats, ssidVars, netVars, flagVars, dlVars,
                    diskVars, supVars, lsnVars, sw, delVars, postProcessed >>

\* variant of CleanDisk that toggles the stop event instead of setting it
CleanDiskTogglesStop ==
    /\ pc = "c_disk"
    /\ IF disk_task # "none"
         THEN /\ cleanupLog' = Append(cleanupLog, "disk")
              /\ stop_disk_keep_alive' = ~stop_disk_keep_alive
              /\ pc' = "c_disk_wait"
         ELSE /\ pc' = "c_wifi"
              /\ UNCHANGED << cleanupLog, stop_disk_keep_alive >>
    /\ UNCHANGED << mainEnd, cfgVars, cmpVars, bleHist, late_beats, ssidVars, netVars, flagVars, dlVars,
                    diskVars, sentinel, stop_wifi_keep_alive, disk_task,
                    wifi_task, lsnVars, powerAwake, sw, delVars, postProcessed >>

\* main() lines 1849-1851: set the stop event of the disk keep-alive
CleanDisk ==
    /\ pc = "c_disk"
    /\ IF disk_task # "none"
         THEN /\ cleanupLog' = Append(cleanupLog, "disk")
              /\ stop_disk_keep_alive' = TRUE
              /\ pc' = "c_disk_wait"
         ELSE /\ pc' = "c_wifi"
              /\ UNCHANGED << cleanupLog, stop_disk_keep_alive >>
    /\ UNCHANGED << mainEnd, cfgVars, cmpVars, bleHist, late_beats, ssidVars, netVars, flagVars, dlVars,
                    diskVars, sentinel, stop_wifi_keep_alive, disk_task,
                    wifi_task, lsnVars, powerAwake, sw, delVars, postProcessed >>

\* variant of CleanDiskWait that sets the stop event without awaiting the task
CleanDiskNoWait ==
    /\ pc = "c_disk_wait"
    /\ pc' = "c_wifi"
    /\ UNCHANGED << mainEnd, cfgVars, cmpVars, bleHist, late_beats, ssidVars, netVars, flagVars, dlVars,
                    diskVars, supVars, lsnVars, powerAwake, sw, delVars, clnVars >>

\* main() lines 1852-1855: asyncio.wait_for(disk_keep_alive_hdl, timeout=2)
\* returns once the task is done, re-raises the task's exception, or on
\* timeout cancels the task (its finally clause runs if it had started),
\* waits for it and raises TimeoutError, which is caught
CleanDiskWait ==
    /\ pc = "c_disk_wait"
    /\ IF disk_task = "failed"
         THEN pc' = "raised" /\ UNCHANGED << disk_task, sentinel >>
         ELSE IF Running(disk_task)
         THEN /\ disk_task' = "cancelled"
              /\ DiskFinally
              /\ pc' = "c_wifi"
         ELSE pc' = "c_wifi" /\ UNCHANGED << disk_task, sentinel >>
    /\ UNCHANGED << mainEnd, cfgVars, cmpVars, bleHist, late_beats, ssidVars, netVars, flagVars, dlVars,
                    diskVars, stop_disk_keep_alive, stop_wifi_keep_alive,
                    wifi_task, lsnVars, powerAwake, sw, delVars, clnVars >>

\* main() lines 1857-1859: set the stop event of the Wi-Fi keep-alive
CleanWifi ==
    /\ pc = "c_wifi"
    /\ IF wifi_task # "none"
         THEN /\ cleanupLog' = Append(cleanupLog, "wifi")
              /\ stop_wifi_keep_alive' = TRUE
              /\ pc' = "c_wifi_wait"
         ELSE /\ pc' = "c_post"
              /\ UNCHANGED << cleanupLog, stop_wifi_keep_alive >>
    /\ UNCHANGED << mainEnd, cfgVars, cmpVars, bleHist, late_beats, ssidVars, netVars, flagVars, dlVars,
                    diskVars, sentinel, stop_disk_keep_alive, disk_task,
                    wifi_task, lsnVars, powerAwake, sw, delVars, postProcessed >>

\* variant of CleanWifiWait whose timeout leaves the task running
CleanWifiWaitNoCancel ==
    /\ pc = "c_wifi_wait"
    /\ pc' = "c_post"
    /\ UNCHANGED << mainEnd, cfgVars, cmpVars, bleHist, late_beats, ssidVars, netVars, flagVars, dlVars,
                    diskVars, supVars, lsnVars, powerAwake, sw, delVars, clnVars >>

\* main() lines 1860-1863: asyncio.wait_for(wifi_keep_alive_hdl, timeout=3)
\* returns once the task is done, or on timeout cancels it, waits for it and
\* raises TimeoutError, which is caught; the task raises nothing itself
\* (RequestError is caught at line 818)
CleanWifiWait ==
    /\ pc = "c_wifi_wait"
    /\ wifi_task' = IF Running(wifi_task) THEN "cancelled" ELSE wifi_task
    /\ pc' = "c_post"
    /\ UNCHANGED << mainEnd, cfgVars, cmpVars, bleHist, late_beats, ssidVars, netVars, flagVars, dlVars,
                    diskVars, sentinel, stop_disk_keep_alive,
                    stop_wifi_keep_alive, disk_task, lsnVars, powerAwake, sw,
                    delVars, clnVars >>

\* variant of ProcessMedia that writes its output without raw files
ProcessMediaAlwaysWrites(local) == (local \ RawNames) \cup {ProcessedName}

\* process_media lines 632-784 on the destination directory: the raw
\* G[HX]nnnnnn.MP4 files are renamed or merged into date-named files
ProcessMedia(local) ==
    IF local \cap RawNames = {} THEN local
    ELSE (local \ RawNames) \cup {ProcessedName}

\* variant of ShouldPostProcess that does not read all_downloads_completed
ShouldPostProcessAnyDownload ==
    downloaded_count > 0 \/ mode = "process_only"

\* main() line 1867: the condition of the post-processing step
ShouldPostProcess ==
    all_downloads_completed /\ (downloaded_count > 0 \/ mode = "process_only")

\* main() lines 1865-1884: post-processing by mode once the transfer is
\* complete (no call is wrapped in a try).  process_media returns early
\* without ffmpeg/ffprobe (lines 635-646), returns when the directory holds
\* no raw file (lines 651-655), processes the raw files, or raises while
\* processing them; touch_files only sets file times.
CleanPost ==
    /\ pc = "c_post"
    /\ IF ShouldPostProcess
         THEN IF mode \in {"full", "rename_only", "process_only"}
              THEN /\ cleanupLog' = Append(cleanupLog, "post")
                   /\ postProcessed' = postProcessed + 1
                   /\ \E outcome \in (IF localFiles \cap RawNames = {}
                                        THEN {"unavailable", "ok"}
                                        ELSE {"unavailable", "ok", "raise"}) :
                        /\ localFiles' = IF outcome = "ok" THEN ProcessMedia(localFiles)
                                                           ELSE localFiles
                        /\ pc' = IF outcome = "raise" THEN "raised" ELSE "c_restore"
              ELSE IF mode = "touch_only"
              THEN /\ cleanupLog' = Append(cleanupLog, "post")
                   /\ postProcessed' = postProcessed + 1
                   /\ pc' = "c_restore"
                   /\ UNCHANGED localFiles
              ELSE pc' = "c_restore" /\ UNCHANGED << clnVars, localFiles >>
         \* line 1883 reads `mode`: UnboundLocalError when it was never assigned
         ELSE /\ pc' = IF mode = Unassigned THEN "raised" ELSE "c_restore"
              /\ UNCHANGED << clnVars, localFiles >>
    /\ UNCHANGED << mainEnd, cfgVars, cmpVars, bleHist, late_beats, ssidVars, netVars, flagVars, dlVars,
                    camera, supVars, lsnVars, powerAwake, sw, delVars >>

\* main() lines 1886-1897: return to the home network when the camera's
\* network was joined
CleanRestore ==
    /\ pc = "c_restore"
    /\ LET target_ssid == IF home_wifi # "" THEN home_wifi ELSE original_ssid
       IN  IF is_windows /\ connected_to_gopro_wifi /\ target_ssid # NoNet
           THEN /\ cleanupLog' = Append(cleanupLog, "restore")
                /\ SwCall(target_ssid, FALSE, FALSE, "restore")
                /\ pc' = "sw_profile"
           ELSE pc' = "done" /\ UNCHANGED << cleanupLog, sw >>
    /\ UNCHANGED << mainEnd, cfgVars, cmpVars, bleHist, late_beats, ssidVars, netVars, flagVars, dlVars,
                    diskVars, supVars, lsnVars, powerAwake, delVars,
                    postProcessed >>

\* ------------------------------------------------------ BLE command layer
\* GoProState, control_wifi_ap and sleep_camera in detail.  main() uses them
\* through their result (ControlWifiAp, Shutdown); here the two functions are
\* called in any order, up to MaxCalls times, against a camera that may send
\* any response frame at any moment while notifications are enabled.

\* GoProState.COMMAND_ID_SET_WIFI_AP (0x17) and COMMAND_ID_SLEEP (0x05)
COMMAND_ID_SET_WIFI_AP == 23
COMMAND_ID_SLEEP == 5
\* 0x56, Set Third Party Client Info: an opcode these functions never register
SET_THIRD_PARTY_CLIENT_INFO == 86

Opcodes == { COMMAND_ID_SET_WIFI_AP, COMMAND_ID_SLEEP, SET_THIRD_PARTY_CLIENT_INFO }

\* status byte of a response frame: 0 is SUCCESS, 2 is NOT_SUPPORTED
Statuses == { 0, 1, 2 }

\* number of command function calls in the model
MaxCalls == 2

CommandFns == { "control_wifi_ap", "sleep_camera" }

\* the opcode a command function registers (lines 407, 430)
CommandId(fn) ==
    IF fn = "control_wifi_ap" THEN COMMAND_ID_SET_WIFI_AP ELSE COMMAND_ID_SLEEP

\* self.command_status.get(command_id): the future's identity, 0 for None
StatusGet(command_id) ==
    IF \E p \in command_status : p.op = command_id
    THEN (CHOOSE p \in command_status : p.op = command_id).fut
    ELSE 0

\* variant of StatusSet that adds the slot without replacing the opcode's old one
StatusSetKeepingOld(command_id, fut) ==
    command_status \cup { [op |-> command_id, fut |-> fut] }

\* state.command_status[command_id] = future (lines 407, 430): the item
\* assignment of a dict replaces what the key held
StatusSet(command_id, fut) ==
    { p \in command_status : p.op # command_id }
        \cup { [op |-> command_id, fut |-> fut] }

\* variant of NotificationHandler without the test `not fut.done()`
NotificationHandlerNoDoneCheck(command_id, status) ==
    LET fut == StatusGet(command_id)
    IN  IF fut # 0
        THEN [futures EXCEPT ![fut].state = "result", ![fut].status = status]
        ELSE futures

\* notification_handler lines 227-231 on a command-response frame of more
\* than two bytes: resolve the opcode's future if it is registered and not done
NotificationHandler(command_id, status) ==
    LET fut == StatusGet(command_id)
    IN  IF fut # 0 /\ futures[fut].state = "pending"
        THEN [futures EXCEPT ![fut].state = "result", ![fut].status = status]
        ELSE futures

\* what a frame for command_id meets: a pending slot, or the reason why the
\* handler has nothing to resolve
SlotKind(command_id) ==
    LET fut == StatusGet(command_id)
    IN  IF fut = 0 THEN "unregistered"
        ELSE IF futures[fut].state = "pending" THEN "pending"
        ELSE IF futures[fut].state = "result" THEN "resolved"
        ELSE "abandoned"

\* the camera sends a frame; bleak calls notification_handler (lines 223-242).
\* Frames from the settings characteristic and frames of at most two bytes
\* are only logged (line 227).
Notify ==
    /\ ble_connected
    /\ \E command_id \in Opcodes, status \in Statuses,
          frame \in {"command", "settings", "short"} :
         IF frame = "command"
         THEN /\ futures' = NotificationHandler(command_id, status)
              /\ lateFrames' = IF SlotKind(command_id) = "pending" THEN lateFrames
                               ELSE lateFrames \cup {SlotKind(command_id)}
         ELSE UNCHANGED << futures, lateFrames >>
    /\ UNCHANGED << mainVars, lk, swVars, config_ini, del_frame, command_status, cmd, ble_connected, calls >>

\* the link drops, or the caller disconnects the client (main lines 1693, 1822)
BleDrop ==
    /\ ble_connected
    /\ ble_connected' = FALSE
    /\ UNCHANGED << mainVars, lk, swVars, config_ini, del_frame, command_status, futures, cmd, calls, lateFrames >>

\* variant of CmdCall that creates the future without registering it
CmdCallUnregistered(fn) ==
    /\ cmd.pc = "idle"
    /\ calls < MaxCalls
    /\ calls' = calls + 1
    /\ futures' = Append(futures, [op |-> CommandId(fn), state |-> "pending",
                                   status |-> 0])
    /\ cmd' = [fn |-> fn, pc |-> "ensure", fut |-> Len(futures) + 1,
               writes |-> 0, out |-> "none"]
    /\ UNCHANGED << mainVars, lk, swVars, config_ini, del_frame, command_status, ble_connected, lateFrames >>

\* control_wifi_ap lines 403-407 / sleep_camera lines 428-430: a new future
\* is created and registered under the command's opcode
CmdCall(fn) ==
    /\ cmd.pc = "idle"
    /\ calls < MaxCalls
    /\ calls' = calls + 1
    /\ futures' = Append(futures, [op |-> CommandId(fn), state |-> "pending",
                                   status |-> 0])
    /\ command_status' = StatusSet(CommandId(fn), Len(futures) + 1)
    /\ cmd' = [fn |-> fn, pc |-> "ensure", fut |-> Len(futures) + 1,
               writes |-> 0, out |-> "none"]
    /\ UNCHANGED << mainVars, lk, swVars, config_ini, del_frame, ble_connected, lateFrames >>

\* the command function ends: with its return, or by raising
CmdEnd(out) == cmd' = [cmd EXCEPT !.pc = "idle", !.out = out]

\* ensure_client_connected (lines 379-399) as called at lines 410 and 433:
\* control_wifi_ap passes main's client, which is returned if it is
\* connected; sleep_camera is called with None (line 1820) and always makes a
\* new connection.  A BleakError goes to the handler of line 412 / 435, any
\* other exception leaves the function with the future still registered.
CmdEnsure ==
    /\ cmd.pc = "ensure"
    /\ IF cmd.fn = "control_wifi_ap" /\ ble_connected
       THEN /\ cmd' = [cmd EXCEPT !.pc = "write"]
            /\ UNCHANGED ble_connected
       ELSE \E outcome \in {"ok", "bleak_error", "error"} :
              /\ ble_connected' = (outcome = "ok")
              /\ IF outcome = "ok" THEN cmd' = [cmd EXCEPT !.pc = "write"]
                 ELSE IF outcome = "bleak_error"
                      THEN cmd' = [cmd EXCEPT !.pc = "re_ensure"]
                      ELSE CmdEnd("raised")
    /\ UNCHANGED << mainVars, lk, swVars, config_ini, del_frame, command_status, futures, calls, lateFrames >>

\* client.write_gatt_char (lines 411, 434); it fails with a BleakError when
\* the link is down
CmdWrite ==
    /\ cmd.pc = "write"
    /\ \E outcome \in {"ok", "bleak_error"} :
         /\ outcome = "ok" => ble_connected
         /\ cmd' = [cmd EXCEPT !.writes = @ + 1,
                               !.pc = IF outcome = "ok" THEN "wait"
                                      ELSE "re_ensure"]
    /\ UNCHANGED << mainVars, lk, swVars, config_ini, del_frame, command_status, futures, ble_connected, calls,
                    lateFrames >>

\* the handler of BleakError, first statement (lines 414, 437):
\* ensure_client_connected(None, ...) always makes a new connection, and its
\* failure leaves the function
CmdReEnsure ==
    /\ cmd.pc = "re_ensure"
    /\ \E outcome \in {"ok", "error"} :
         /\ ble_connected' = (outcome = "ok")
         /\ IF outcome = "ok" THEN cmd' = [cmd EXCEPT !.pc = "re_write"]
            ELSE CmdEnd("raised")
    /\ UNCHANGED << mainVars, lk, swVars, config_ini, del_frame, command_status, futures, calls, lateFrames >>

\* variant of CmdReWrite whose failed write reconnects and writes again
CmdReWriteRetries ==
    /\ cmd.pc = "re_write"
    /\ \E outcome \in {"ok", "error"} :
         /\ outcome = "ok" => ble_connected
         /\ cmd' = [cmd EXCEPT !.writes = @ + 1,
                               !.pc = IF outcome = "ok" THEN "wait" ELSE "re_ensure"]
    /\ UNCHANGED << mainVars, lk, swVars, config_ini, del_frame, command_status, futures, ble_connected, calls,
                    lateFrames >>

\* the handler of BleakError, second statement (lines 415, 438): the command
\* is written once more; a failure of this write leaves the function
CmdReWrite ==
    /\ cmd.pc = "re_write"
    /\ \E outcome \in {"ok", "error"} :
         /\ outcome = "ok" => ble_connected
         /\ cmd' = [cmd EXCEPT !.writes = @ + 1,
                               !.pc = IF outcome = "ok" THEN "wait" ELSE "idle",
                               !.out = IF outcome = "ok" THEN @ ELSE "raised"]
    /\ UNCHANGED << mainVars, lk, swVars, config_ini, del_frame, command_status, futures, ble_connected, calls,
                    lateFrames >>

\* asyncio.wait_for(future, timeout=10) returns the status (lines 417-421,
\* 440-444): control_wifi_ap raises RuntimeError on a non-zero status,
\* sleep_camera logs it
CmdResult ==
    /\ cmd.pc = "wait"
    /\ futures[cmd.fut].state = "result"
    /\ CmdEnd(IF futures[cmd.fut].status = 0 THEN "ok"
              ELSE IF cmd.fn = "control_wifi_ap" THEN "raised"
              ELSE "logged")
    /\ UNCHANGED << mainVars, lk, swVars, config_ini, del_frame, command_status, futures, ble_connected, calls,
                    lateFrames >>

\* variant of CmdTimeout in which sleep_camera lets the TimeoutError out
CmdTimeoutAlwaysRaises ==
    /\ cmd.pc = "wait"
    /\ futures[cmd.fut].state = "pending"
    /\ futures' = [futures EXCEPT ![cmd.fut].state = "cancelled"]
    /\ CmdEnd("raised")
    /\ UNCHANGED << mainVars, lk, swVars, config_ini, del_frame, command_status, ble_connected, calls, lateFrames >>

\* the 10 seconds pass without a response: wait_for cancels the future and
\* raises TimeoutError (lines 422-423, 445-446)
CmdTimeout ==
    /\ cmd.pc = "wait"
    /\ futures[cmd.fut].state = "pending"
    /\ futures' = [futures EXCEPT ![cmd.fut].state = "cancelled"]
    /\ CmdEnd(IF cmd.fn = "control_wifi_ap" THEN "raised" ELSE "logged")
    /\ UNCHANGED << mainVars, lk, swVars, config_ini, del_frame, command_status, ble_connected, calls, lateFrames >>

InitBle ==
    /\ Init
    /\ is_windows /\ mode = "full" /\ home_wifi = "" /\ hostNet = "Home"
    /\ localFiles = {}

NextBle ==
    \/ \E fn \in CommandFns : CmdCall(fn)
    \/ CmdEnsure
    \/ CmdWrite
    \/ CmdReEnsure
    \/ CmdReWrite
    \/ CmdResult
    \/ CmdTimeout
    \/ Notify
    \/ BleDrop

SpecBle == InitBle /\ [][NextBle]_vars

\* --------------------------------------------- switch_wifi_windows in seconds
\* _connection_loop (lines 1123-1145) with the clock of the event loop in
\* whole seconds.  main() uses the function through its result (SwProfile,
\* SwLoop); here the loop runs against four environments:
\*   "late"         WlanConnect has no effect during the first ConnectFailsFor
\*                  seconds, after that the host joins; the camera answers
\*   "never"        WlanConnect never has an effect
\*   "unreachable"  the host joins at once, the camera never answers
\*   "free"         the host joins and leaves at any moment, the camera
\*                  answers or not

\* longest timeout of the model, in seconds
MaxTimeout == 8

\* seconds during which the connect primitive fails in environment "late"
ConnectFailsFor == 3

\* httpx.AsyncClient(timeout=5.0) in verify_gopro_connection
ProbeTimeout == 5

Scenarios == {"late", "never", "unreachable", "free"}

\* whether the host is on the requested network after WlanConnect was issued
\* `elapsed` seconds after the start of the loop
ConnectEffect(scenario, elapsed, joined) ==
    IF scenario = "late" THEN {joined \/ elapsed >= ConnectFailsFor}
    ELSE IF scenario = "never" THEN {FALSE}
    ELSE IF scenario = "unreachable" THEN {TRUE}
    ELSE BOOLEAN

\* results of verify_gopro_connection (lines 1225-1235)
ProbeResults(scenario) ==
    IF scenario = "late" THEN {TRUE}
    ELSE IF scenario = "free" THEN BOOLEAN
    ELSE {FALSE}

\* seconds verify_gopro_connection takes: an answer comes at once, a failure
\* is a refusal at once or the timeout of the HTTP client
ProbeSeconds(ok) == IF ok THEN {0} ELSE {0, ProbeTimeout}

\* variant of LoopVerdict for which the name match always suffices
LoopVerdictNameOnly(matched, verify_gopro, probe_ok) == matched

\* lines 1138-1144: whether the iteration returns True
LoopVerdict(matched, verify_gopro, probe_ok) ==
    matched /\ (~verify_gopro \/ probe_ok)

\* switch_wifi_windows is called with or without a password, a profile for
\* the SSID being saved in Windows or not (air.saved)
SwStart ==
    /\ wl.pc = "idle"
    /\ \E scenario \in Scenarios, timeout \in 1..MaxTimeout, verify \in BOOLEAN,
          password \in BOOLEAN, saved \in BOOLEAN :
         /\ air' = [scenario |-> scenario, joined |-> FALSE, saved |-> saved]
         /\ wl' = [NoLoop EXCEPT !.pc = "profile", !.verify_gopro = verify,
                                 !.timeout = timeout, !.now = LoopClock0,
                                 !.password = password, !.saved0 = saved]
    /\ UNCHANGED << mainVars, lk, bleVars, config_ini, del_frame >>

\* _connection_loop lines 1123-1125: end_time and last_spam_time
LoopEntry(frame) ==
    [frame EXCEPT !.pc = "test", !.end_time = frame.now + frame.timeout,
                  !.last_spam_time = 0]

\* _manage_profile_and_connect returns False before the connection loop
ProfileFailed(frame) == [frame EXCEPT !.pc = "ret", !.result = "false"]

\* variant of SwManageProfile that enters the loop without a saved profile
SwManageProfileNoCheck ==
    /\ wl.pc = "profile"
    /\ wl' = LoopEntry(wl)
    /\ UNCHANGED << mainVars, lk, bleVars, config_ini, del_frame, air >>

\* _manage_profile_and_connect lines 1152-1215.  With a password the saved
\* profile is deleted and a new one is set (for the user, else for all
\* users); a failure of WlanSetProfile, or an exception before or after
\* the deletion, returns False.  Without a password `netsh wlan show
\* profile` must exit with 0: a missing profile, or a check that could not
\* be run, returns False.
SwManageProfile ==
    /\ wl.pc = "profile"
    /\ IF wl.password
       THEN \E outcome \in {"set", "set_failed", "no_interface"} :
              IF outcome = "no_interface"
              THEN wl' = ProfileFailed(wl) /\ UNCHANGED air
              ELSE /\ air' = [air EXCEPT !.saved = (outcome = "set")]
                   /\ wl' = [(IF outcome = "set" THEN LoopEntry(wl)
                                                 ELSE ProfileFailed(wl))
                                EXCEPT !.profile_ops =
                                   IF outcome = "set" THEN << "delete", "set" >>
                                                      ELSE << "delete" >>]
       ELSE \E check_ran \in BOOLEAN :
              /\ wl' = IF check_ran /\ air.saved THEN LoopEntry(wl)
                                                 ELSE ProfileFailed(wl)
              /\ UNCHANGED air
    /\ UNCHANGED << mainVars, lk, bleVars, config_ini, del_frame >>

\* variant of SwIterate that issues WlanConnect when more than one second
\* has passed since the last one
SwIterateShortInterval ==
    /\ wl.pc = "test"
    /\ IF wl.now < wl.end_time
       THEN LET due == wl.now - wl.last_spam_time >= 2
            IN  /\ \E j \in (IF due THEN ConnectEffect(air.scenario,
                                                       wl.now - LoopClock0,
                                                       air.joined)
                                    ELSE {air.joined}) :
                      air' = [air EXCEPT !.joined = j]
                /\ wl' = [wl EXCEPT
                            !.last_spam_time = IF due THEN wl.now ELSE @,
                            !.sent = IF due THEN Append(@, wl.now) ELSE @,
                            !.iter = @ + 1,
                            !.sent_iter = IF due THEN Append(@, wl.iter + 1) ELSE @,
                            !.now = @ + 1,
                            !.pc = "poll"]
       ELSE /\ wl' = [wl EXCEPT !.pc = "ret", !.result = "false"]
            /\ UNCHANGED air
    /\ UNCHANGED << mainVars, lk, bleVars, config_ini, del_frame >>

\* lines 1127-1136 and 1145: the loop test; WlanConnect when
\* connect_spam_interval has passed since the last one; sleep(1)
SwIterate ==
    /\ wl.pc = "test"
    /\ IF wl.now < wl.end_time
       THEN LET due == wl.now - wl.last_spam_time >= connect_spam_interval
            IN  /\ \E j \in (IF due THEN ConnectEffect(air.scenario,
                                                       wl.now - LoopClock0,
                                                       air.joined)
                                    ELSE {air.joined}) :
                      air' = [air EXCEPT !.joined = j]
                /\ wl' = [wl EXCEPT
                            !.last_spam_time = IF due THEN wl.now ELSE @,
                            !.sent = IF due THEN Append(@, wl.now) ELSE @,
                            !.iter = @ + 1,
                            !.sent_iter = IF due THEN Append(@, wl.iter + 1) ELSE @,
                            !.now = @ + 1,
                            !.pc = "poll"]
       ELSE /\ wl' = [wl EXCEPT !.pc = "ret", !.result = "false"]
            /\ UNCHANGED air
    /\ UNCHANGED << mainVars, lk, bleVars, config_ini, del_frame >>

\* lines 1137-1144: poll the active SSID; on a match return True at once
\* without verify_gopro, else after verify_gopro_connection succeeded
SwPoll ==
    /\ wl.pc = "poll"
    /\ \E ok \in ProbeResults(air.scenario) :
       \E d \in ProbeSeconds(ok) :
         LET probed == air.joined /\ wl.verify_gopro
         IN  wl' = [wl EXCEPT
                      !.matched = air.joined,
                      !.polls = @ + 1,
                      !.probe = IF ~probed THEN "none"
                                ELSE IF ok THEN "ok" ELSE "failed",
                      !.now = IF probed THEN @ + d ELSE @,
                      !.pc = IF LoopVerdict(air.joined, wl.verify_gopro, ok)
                             THEN "ret" ELSE "test",
                      !.result = IF LoopVerdict(air.joined, wl.verify_gopro, ok)
                                 THEN "true" ELSE @]
    /\ UNCHANGED << mainVars, lk, bleVars, config_ini, del_frame, air >>

\* environment "free": the host joins or leaves the requested network
AirChange ==
    /\ wl.pc \in {"test", "poll"}
    /\ air.scenario = "free"
    /\ air' = [air EXCEPT !.joined = ~@]
    /\ UNCHANGED << mainVars, lk, bleVars, config_ini, del_frame, wl >>

InitSw == InitBle

NextSw ==
    \/ SwStart
    \/ SwManageProfile
    \/ SwIterate
    \/ SwPoll
    \/ AirChange

SpecSw == InitSw /\ [][NextSw]_vars

\* ------------------------------------------- the BLE clients of one run
\* main() lines 1661-1698 and 1816-1825 with control_wifi_ap, sleep_camera
\* and ensure_client_connected, each BleakClient being an object of its own.
\* Joining and transfer (lines 1700-1814) are two positions of the run.

\* BleakClient(...) followed by a successful connect (lines 290-300, 388-396)
NewClient(frame) ==
    [frame EXCEPT !.made = @ + 1, !.local = frame.made + 1,
                  !.open = @ \cup {frame.made + 1}]

\* an exception leaves the command function: out of control_wifi_ap it ends
\* the main sequence (line 1829), out of sleep_camera it is logged (line
\* 1824); main()'s client variable is not assigned
LkRaise(frame) == [frame EXCEPT !.pc = "end"]

\* connect_ble (lines 249-376) as seen at line 1661: a connected client, or
\* no device and the early return of line 1671
LkConnectBle ==
    /\ lk.pc = "connect_ble"
    /\ \E found \in BOOLEAN :
         lk' = IF found
               THEN [lk EXCEPT !.pc = "ensure", !.fn = "control_wifi_ap",
                               !.made = 1, !.client = 1, !.local = 1,
                               !.open = {1}]
               ELSE [lk EXCEPT !.pc = "end"]
    /\ UNCHANGED << mainVars, bleVars, swVars, config_ini, del_frame >>

\* a connection is lost
LkLinkLoss ==
    /\ lk.pc # "end"
    /\ \E c \in lk.open : lk' = [lk EXCEPT !.open = @ \ {c}]
    /\ UNCHANGED << mainVars, bleVars, swVars, config_ini, del_frame >>

\* ensure_client_connected (lines 379-399) as called at lines 410 and 433:
\* a connected client is returned as it is, otherwise a new client is made
LkEnsure ==
    /\ lk.pc = "ensure"
    /\ IF lk.local \in lk.open
       THEN lk' = [lk EXCEPT !.pc = "write"]
       ELSE \E outcome \in {"ok", "bleak_error", "error"} :
              lk' = IF outcome = "ok"
                    THEN [NewClient(lk) EXCEPT !.pc = "write"]
                    ELSE IF outcome = "bleak_error"
                    THEN [lk EXCEPT !.pc = "re_ensure"]
                    ELSE LkRaise(lk)
    /\ UNCHANGED << mainVars, bleVars, swVars, config_ini, del_frame >>

\* write_gatt_char (lines 411, 434): it succeeds on an open connection, or
\* raises BleakError with the connection lost or still up
LkWrite ==
    /\ lk.pc = "write"
    /\ \E outcome \in {"ok", "bleak_error"} :
         /\ outcome = "ok" => lk.local \in lk.open
         /\ lk' = [lk EXCEPT !.pc = IF outcome = "ok" THEN "wait"
                                    ELSE "re_ensure"]
    /\ UNCHANGED << mainVars, bleVars, swVars, config_ini, del_frame >>

\* lines 414, 437: ensure_client_connected(None, ...) makes a new client and
\* the local variable is rebound to it; the client it held is not touched
LkReEnsure ==
    /\ lk.pc = "re_ensure"
    /\ \E outcome \in {"ok", "error"} :
         lk' = IF outcome = "ok"
               THEN [NewClient(lk) EXCEPT !.pc = "re_write"]
               ELSE LkRaise(lk)
    /\ UNCHANGED << mainVars, bleVars, swVars, config_ini, del_frame >>

\* lines 415, 438: the second write
LkReWrite ==
    /\ lk.pc = "re_write"
    /\ \E outcome \in {"ok", "error"} :
         /\ outcome = "ok" => lk.local \in lk.open
         /\ lk' = IF outcome = "ok" THEN [lk EXCEPT !.pc = "wait"]
                                    ELSE LkRaise(lk)
    /\ UNCHANGED << mainVars, bleVars, swVars, config_ini, del_frame >>

\* lines 416-424, 439-447 and the assignments of lines 1688 and 1820:
\* control_wifi_ap returns its client on status 0 and raises otherwise;
\* sleep_camera returns its client whatever the response
LkWait ==
    /\ lk.pc = "wait"
    /\ \E answered \in BOOLEAN :
         lk' = IF lk.fn = "control_wifi_ap"
               THEN IF answered
                    THEN [lk EXCEPT !.pc = "disconnect", !.client = lk.local]
                    ELSE LkRaise(lk)
               ELSE [lk EXCEPT !.pc = "sleep_disconnect", !.client = lk.local]
    /\ UNCHANGED << mainVars, bleVars, swVars, config_ini, del_frame >>

\* main() lines 1692-1695: the returned client is disconnected and the
\* variable set to None; an exception of disconnect() ends the sequence
LkDisconnect ==
    /\ lk.pc = "disconnect"
    /\ \E ok \in BOOLEAN :
         lk' = IF ok
               THEN [lk EXCEPT !.pc = "join", !.open = @ \ {lk.client},
                               !.client = 0]
               ELSE LkRaise(lk)
    /\ UNCHANGED << mainVars, bleVars, swVars, config_ini, del_frame >>

\* main() lines 1700-1745: the host joins the camera's network, or the run
\* ends (line 1745, an exception, a cancellation)
LkJoin ==
    /\ lk.pc = "join"
    /\ \E joined \in BOOLEAN :
         lk' = [lk EXCEPT !.pc = IF joined THEN "transfer" ELSE "end"]
    /\ UNCHANGED << mainVars, bleVars, swVars, config_ini, del_frame >>

\* main() lines 1747-1817: transfer and deletion, then the test of
\* shutdown_after_complete; sleep_camera is called with None (line 1820)
LkTransfer ==
    /\ lk.pc = "transfer"
    /\ \E shutdown_after_complete \in {"yes", "no"} :
         lk' = IF shutdown_after_complete = "yes"
               THEN [lk EXCEPT !.pc = "ensure", !.fn = "sleep_camera",
                               !.local = 0]
               ELSE [lk EXCEPT !.pc = "end"]
    /\ UNCHANGED << mainVars, bleVars, swVars, config_ini, del_frame >>

\* main() lines 1821-1823: the client of sleep_camera is disconnected if it
\* is connected
LkSleepDisconnect ==
    /\ lk.pc = "sleep_disconnect"
    /\ lk' = IF lk.client \in lk.open
             THEN [lk EXCEPT !.pc = "end", !.open = @ \ {lk.client},
                             !.client = 0]
             ELSE [lk EXCEPT !.pc = "end"]
    /\ UNCHANGED << mainVars, bleVars, swVars, config_ini, del_frame >>

InitLink == InitBle

NextLink ==
    \/ LkConnectBle
    \/ LkLinkLoss
    \/ LkEnsure
    \/ LkWrite
    \/ LkReEnsure
    \/ LkReWrite
    \/ LkWait
    \/ LkDisconnect
    \/ LkJoin
    \/ LkTransfer
    \/ LkSleepDisconnect

SpecLink == InitLink /\ [][NextLink]_vars

\* ------------------------------------------------------------- config.ini
\* save_config_updates (lines 1483-1533) as a function on the lines of the
\* file.  A line is a record: t is its kind as the function classifies it
\* ("comment": empty or starting with # or ;  "section": [name]  "key": any
\* other line with an = sign), s the section name, k the text before the
\* first = sign, stripped, and v the value.  A commented-out key line, like
\* `#identifier = ` of DEFAULT_CONFIG, is a comment that carries k.

\* longest file of the model, in lines
MaxLines == 3

SectionLine(name) == [t |-> "section", s |-> name, k |-> "", v |-> ""]
KeyLine(key, value) == [t |-> "key", s |-> "", k |-> key, v |-> value]
CommentLine(text) == [t |-> "comment", s |-> "", k |-> "", v |-> text]
CommentedKey(key, value) == [t |-> "comment", s |-> "", k |-> key, v |-> value]

\* lines of DEFAULT_CONFIG (lines 1379-1435) and their uncommented forms
ConfigLines ==
    { SectionLine("General"), SectionLine("Processing"),
      CommentLine("# OutputFolder"),
      CommentedKey("identifier", ""),
      KeyLine("identifier", ""),
      KeyLine("output_folder", "GoPro_Media"),
      KeyLine("mode", "full") }

RECURSIVE SeqsUpTo(_, _)
SeqsUpTo(S, n) ==
    IF n = 0 THEN { << >> }
    ELSE LET shorter == SeqsUpTo(S, n - 1)
         IN  shorter \cup { Append(q, x) : q \in { r \in shorter : Len(r) = n - 1 },
                                            x \in S }

ConfigFiles == SeqsUpTo(ConfigLines, MaxLines)

\* the update main() builds at line 1681
IdentifierUpdate == [key \in { << "General", "identifier" >> } |-> "ABCD"]

\* del pending_updates[update_key]
WithoutKey(pending, update_key) ==
    [key \in DOMAIN pending \ {update_key} |-> pending[key]]

\* lines 1497-1523: the loop over the lines, with current_section ("" is
\* None) and pending_updates
RECURSIVE SaveLoop(_, _, _)
SaveLoop(lines, current_section, pending_updates) ==
    IF lines = << >> THEN << >>
    ELSE LET line == Head(lines)
             update_key == << current_section, line.k >>
         IN  IF line.t = "comment"
             THEN << line >> \o SaveLoop(Tail(lines), current_section, pending_updates)
             ELSE IF line.t = "section"
             THEN << line >> \o SaveLoop(Tail(lines), line.s, pending_updates)
             ELSE IF current_section # "" /\ update_key \in DOMAIN pending_updates
             THEN << [line EXCEPT !.v = pending_updates[update_key]] >>
                    \o SaveLoop(Tail(lines), current_section,
                                WithoutKey(pending_updates, update_key))
             ELSE << line >> \o SaveLoop(Tail(lines), current_section, pending_updates)

\* save_config_updates(config_path, updates): the new lines of the file
SaveConfigUpdates(lines, updates) ==
    IF DOMAIN updates = {} THEN lines ELSE SaveLoop(lines, "", updates)

\* the section a line belongs to: the last section line before it
RECURSIVE SectionAt(_, _)
SectionAt(lines, i) ==
    IF i = 0 THEN ""
    ELSE IF lines[i].t = "section" THEN lines[i].s
    ELSE SectionAt(lines, i - 1)

\* config.get(section, key, fallback='') after config.read (lines 1453-1456):
\* comments are skipped, the value of the key line of that section is read
ConfigGet(lines, section, key) ==
    LET found == { i \in 1..Len(lines) :
                     /\ lines[i].t = "key" /\ lines[i].k = key
                     /\ SectionAt(lines, i) = section }
    IN  IF found = {} THEN ""
        ELSE lines[CHOOSE i \in found : \A j \in found : j <= i].v

\* load_config reads an existing config.ini
ReadConfig ==
    /\ config_ini = NoFile
    /\ \E lines \in ConfigFiles \ { << >> } :
         config_ini' = [NoFile EXCEPT !.lines = lines]
    /\ UNCHANGED << mainVars, lk, bleVars, swVars, del_frame >>

\* main() lines 1673-1684: the identifier was detected from the BLE name and
\* is saved
SaveIdentifier ==
    /\ config_ini # NoFile
    /\ ~config_ini.saved
    /\ config_ini' = [lines |-> SaveConfigUpdates(config_ini.lines, IdentifierUpdate),
                      before |-> config_ini.lines,
                      saved |-> TRUE]
    /\ UNCHANGED << mainVars, lk, bleVars, swVars, del_frame >>

InitCfg == InitBle

NextCfg ==
    \/ ReadConfig
    \/ SaveIdentifier

SpecCfg == InitCfg /\ [][NextCfg]_vars

\* ------------------------------------------------------ deletion decision
\* main() lines 1768-1814 with the configured policy and the user's answer.
\* main() uses the decision through its result (AskDelete); here it is taken
\* for every policy, platform and answer.

\* values of delete_after_download in config.ini, lower-cased (line 1466)
DeletePolicies == {"yes", "no", "ask", "always"}

\* what the user may give: a key on Windows (get_y_n_with_timeout_windows
\* reads one character, or times out after 15 s), a line elsewhere.  The
\* cyrillic answers are written in latin letters: ru_n is the letter en
\* (U+043D, initial of "net", no; on the key of Y), ru_t the letter te (on
\* the key of N), ru_d the letter de (initial of "da", yes), ru_da and ru_net
\* the two words.
KeyAnswers == {"y", "ru_n", "n", "ru_t", "ru_d", "q", "timeout"}
LineAnswers == {"y", "yes", "ru_d", "ru_da", "ru_n", "n", "ru_net", ""}

\* get_y_n_with_timeout_windows lines 1258-1281
GetYNWithTimeoutWindows(answer) ==
    IF answer = "timeout" THEN FALSE
    ELSE IF answer \in {"y", "ru_n"} THEN TRUE
    ELSE FALSE

\* main() lines 1781-1800: should_delete
ShouldDelete(delete_after_download, windows, answer) ==
    IF delete_after_download = "yes" THEN TRUE
    ELSE IF delete_after_download = "ask"
    THEN IF windows THEN GetYNWithTimeoutWindows(answer)
         ELSE answer \in {"y", "yes", "ru_d", "ru_da", "ru_n"}
    ELSE FALSE

\* main() lines 1768-1800: the download completed with `files` files present
\* on disk and on the camera; the decision is taken
DelDecide ==
    /\ del_frame.pc = "idle"
    /\ \E policy \in DeletePolicies, files \in 0..MaxFiles,
          answer \in (IF is_windows THEN KeyAnswers ELSE LineAnswers) :
         LET asked == IF policy = "ask" THEN answer ELSE ""
         IN  del_frame' = [pc |-> "decided",
                           delete_after_download |-> policy,
                           answer |-> asked,
                           should_delete |-> ShouldDelete(policy, is_windows, asked),
                           files |-> files,
                           sent |-> 0]
    /\ UNCHANGED << mainVars, lk, bleVars, swVars, config_ini >>

\* main() lines 1802-1814 with delete_files_from_camera (lines 566-588): one
\* delete request per file when should_delete is set, none otherwise
DelRequest ==
    /\ del_frame.pc = "decided"
    /\ IF del_frame.should_delete /\ del_frame.sent < del_frame.files
       THEN del_frame' = [del_frame EXCEPT !.sent = @ + 1]
       ELSE del_frame' = [del_frame EXCEPT !.pc = "end"]
    /\ UNCHANGED << mainVars, lk, bleVars, swVars, config_ini >>

InitDel == Init /\ mode = "full" /\ home_wifi = "" /\ hostNet = "Home"
                /\ localFiles = {}

NextDel ==
    \/ DelDecide
    \/ DelRequest

SpecDel == InitDel /\ [][NextDel]_vars

\* ------------------------------------------------------------- next run
\* the program is started again (__main__ lines 1900-1903) after a run that
\* reached the transfer: a new process with fresh locals; the configuration,
\* the destination directory and the camera are as the last run left them
Rerun ==
    /\ pc \in {"done", "raised"}
    /\ run < MaxRuns
    /\ dlOutcome # "none"
    /\ run' = run + 1
    /\ prevRun' = [completed |-> all_downloads_completed,
                   remote |-> dl_all_files_on_camera_meta]
    /\ pc' = "start"
    /\ mainEnd' = "none"
    /\ original_ssid' = NoNet
    /\ netChanged' = FALSE
    /\ probeOk' = FALSE
    /\ discovered' = FALSE
    /\ ble_written' = FALSE
    /\ ble_outcome' = "none"
    /\ ap_outcome' = "none"
    /\ wifi_creds' = "none"
    /\ connected_to_gopro_wifi' = FALSE
    /\ all_downloads_completed' = FALSE
    /\ downloaded_count' = 0
    /\ downloaded_files_meta' = << >>
    /\ all_files_on_camera_meta' = << >>
    /\ dl_all_files_on_camera_meta' = << >>
    /\ dl_downloaded_count' = 0
    /\ dl_downloaded_files_meta' = << >>
    /\ files_to_download' = << >>
    /\ dlIndex' = 0
    /\ partial' = ""
    /\ stop_disk_keep_alive' = FALSE
    /\ stop_wifi_keep_alive' = FALSE
    /\ disk_task' = "none"
    /\ wifi_task' = "none"
    /\ late_beats' = {}
    /\ listener' = "none"
    /\ cancelPending' = FALSE
    /\ powerAwake' = FALSE
    /\ sw' = NoSw
    /\ files_on_disk_and_camera' = << >>
    /\ delIndex' = 0
    /\ cleanupLog' = << >>
    /\ requested' = << >>
    /\ deleted' = << >>
    /\ dlOutcome' = "none"
    /\ localAtList' = {}
    /\ reqAtCancel' = 0
    /\ cancelledFile' = ""
    /\ postProcessed' = 0
    /\ UNCHANGED << mode, is_windows, home_wifi, hostNet, diskVars, sentinel,
                    cmpVars >>

\* ------------------------------------------------------------ specification
Next ==
    \/ MainStart \/ GetOriginalSsid \/ ModeBranch \/ ConnectBle
    \/ ControlWifiAp \/ BleDisconnect \/ ScanWifi \/ SwProfile \/ SwLoop
    \/ UserJoinsManually \/ ManualJoin \/ StartTransfer
    \/ DlList \/ DlOpen \/ DlStream
    \/ AskDelete \/ PreDeletePing \/ DeleteStep \/ Shutdown
    \/ EscapeKey \/ SigInt \/ MainCancelled \/ CancelSwallowed
    \/ DiskTimeout \/ DiskTouch \/ DiskStop
    \/ WifiTimeout \/ WifiPing \/ WifiPingDone \/ WifiStop
    \/ CleanListener \/ CleanPower \/ CleanDisk \/ CleanDiskWait
    \/ CleanWifi \/ CleanWifiWait \/ CleanPost \/ CleanRestore

Spec == Init /\ [][Next]_vars

\* Successive runs over the same destination directory and camera, on a host
\* without Wi-Fi automation (is_windows false: no Escape listener, the camera's
\* network is joined by hand); transfer and post-processing are the same code
\* on every platform.
InitRuns ==
    /\ Init
    /\ ~is_windows
    /\ mode \in valid_modes

NextRuns ==
    \/ MainStart \/ ModeBranch \/ ConnectBle \/ ControlWifiAp \/ BleDisconnect
    \/ UserJoinsManually \/ ManualJoin \/ StartTransfer
    \/ DlList \/ DlOpen \/ DlStream
    \/ AskDelete \/ PreDeletePing \/ DeleteStep \/ Shutdown
    \/ SigInt \/ MainCancelled \/ CancelSwallowed
    \/ DiskTimeout \/ DiskTouch \/ DiskStop
    \/ WifiTimeout \/ WifiPing \/ WifiPingDone \/ WifiStop
    \/ CleanListener \/ CleanPower \/ CleanDisk \/ CleanDiskWait
    \/ CleanWifi \/ CleanWifiWait \/ CleanPost \/ CleanRestore
    \/ Rerun

SpecRuns == InitRuns /\ [][NextRuns]_vars

\* ================================================================= claims
\* main() has been left: by its return after the last line of the finally
\* block, or by an exception that escaped the finally block
MainExited == pc \in {"done", "raised"}

\* the finally block ran to its last line (line 1897)
CleanupCompleted == pc = "done"

\* the restore call of line 1891 was made
RestoreAttempted == "restore" \in Range(cleanupLog)

\* the condition of lines 1887-1889 under which the restore call is made
RestoreRequired ==
    /\ is_windows
    /\ connected_to_gopro_wifi
    /\ (home_wifi # "" \/ original_ssid # NoNet)

\* ---- C1
\* C1: however the main sequence ended (normally, by an early return, by
\* cancellation, by an exception), main() is left only after the finally
\* block has run to its last step.
C1_CleanupRunsToLastStep ==
    MainExited => CleanupCompleted

\* ---- C2
\* C2: after cleanup completes, a restore of the original network has been
\* attempted if and only if the host's active Wi-Fi network was changed during
\* the run.
C2_RestoreIffNetworkChanged ==
    CleanupCompleted => (RestoreAttempted <=> netChanged)

\* ---- C3
\* C3: after cleanup completes neither keep-alive task is still running,
\* whether it stopped on its stop event or was cancelled by the bounded wait.
C3_SupervisorsStopped ==
    CleanupCompleted => ~Running(disk_task) /\ ~Running(wifi_task)

\* both tasks were started; one ended on its stop event, the other was
\* cancelled by the bounded wait
C3_Witness ==
    /\ CleanupCompleted
    /\ disk_task = "done"
    /\ wifi_task = "cancelled"

\* ---- C4
\* C4: once main() has been left (cleanup completed, or left by the error of
\* a failed disk keep-alive), the sentinel file .disk_keep_alive does not
\* exist, whichever way the disk keep-alive task ended.
C4_SentinelAbsent ==
    MainExited => ~sentinel

\* cleanup completed after the bounded wait had to cancel the disk keep-alive
C4_Witness ==
    /\ CleanupCompleted
    /\ disk_task = "cancelled"
    /\ ~sentinel

\* ---- C5
\* C5: a failing cleanup action does not skip the later ones: whenever main()
\* has been left and the restore step was required, the restore was attempted.
C5_RestoreStillExecutes ==
    MainExited /\ RestoreRequired => RestoreAttempted

\* ---- C6
\* the order of the cleanup actions stated by the specification
CleanupOrder == << "listener", "power", "disk", "wifi", "post", "restore" >>

CleanupRank(a) == CHOOSE i \in 1..Len(CleanupOrder) : CleanupOrder[i] = a

\* C6: the cleanup actions start in the order listener, power, disk
\* keep-alive, Wi-Fi keep-alive, post-processing, network restore, each at
\* most once, and none starts before the earlier ones have finished or were
\* abandoned by their bounded wait.
C6_CleanupOrder ==
    /\ \A i, j \in 1..Len(cleanupLog) :
          i < j => CleanupRank(cleanupLog[i]) < CleanupRank(cleanupLog[j])
    /\ \A i \in 1..Len(cleanupLog) :
          LET a == cleanupLog[i]
          IN  /\ CleanupRank(a) > CleanupRank("listener") => listener # "running"
              /\ CleanupRank(a) > CleanupRank("power") => ~powerAwake
              /\ CleanupRank(a) > CleanupRank("disk") => ~Running(disk_task)
              /\ CleanupRank(a) > CleanupRank("wifi") => ~Running(wifi_task)
    /\ RestoreAttempted => pc \in {"sw_profile", "sw_loop", "done", "raised"}

\* a run whose cleanup performed all six actions
C6_Witness ==
    /\ CleanupCompleted
    /\ cleanupLog = CleanupOrder

\* ---- C7
\* C7 as stated: process_media / touch_files is invoked only after a transfer
\* that fully completed; after a cancelled, failed or never-started transfer
\* it is not invoked.
C7_PostOnlyAfterCompleteTransfer ==
    postProcessed > 0 => dlOutcome = "complete"

\* C7, amended: process_media / touch_files is invoked only if
\* all_downloads_completed is true; in every mode but process_only this means
\* that download_files returned a complete transfer with at least one new
\* file, and in mode process_only (which sets the flag itself, without any
\* transfer) it is invoked although no transfer was started.
C7_PostOnlyIfCompletedFlag ==
    postProcessed > 0 =>
        /\ all_downloads_completed
        /\ mode # "process_only" => dlOutcome = "complete" /\ downloaded_count > 0
        /\ mode = "process_only" => dlOutcome = "none"

\* post-processing ran after a transfer that completed with new files
C7_Witness ==
    /\ postProcessed > 0
    /\ mode = "full"
    /\ dlOutcome = "complete"
    /\ downloaded_count = MaxFiles

C9_PendingSet ==
    Range(files_to_download) =
        { f \in Range(dl_all_files_on_camera_meta) : f.n \notin localAtList }

\* a listing of which one file is present locally and another is pending
C9_Witness ==
    /\ files_to_download # << >>
    /\ Len(files_to_download) < Len(dl_all_files_on_camera_meta)
    /\ localAtList # {}

\* ---- C10
\* C10: when a run of a downloading mode completed its transfer and the next
\* run finds the same remote files, that next run requests no file.
C10_CompletedRunThenNothingToDownload ==
    /\ run > 1
    /\ prevRun.completed
    /\ prevRun.remote # << >>
    /\ dl_all_files_on_camera_meta = prevRun.remote
    => requested = << >>

\* C11: a command-response frame for an opcode whose future is already
\* resolved, was abandoned on timeout, or was never registered changes
\* nothing: a future that is done keeps its state and its status for ever,
\* and the pending map changes only when a command function registers a slot.
C11_LateNotificationIgnored ==
    [][ /\ \A i \in DOMAIN futures :
              futures[i].state # "pending" => futures'[i] = futures[i]
        /\ calls' = calls => command_status' = command_status ]_vars

\* frames of all three kinds have been received
C11_Witness == lateFrames = {"resolved", "abandoned", "unregistered"}

\* C12: the pending map holds at most one slot per opcode, so at most one
\* unresolved slot, however the previous command for that opcode ended.
C12_OneSlotPerOpcode ==
    \A command_id \in Opcodes :
        Cardinality({ p \in command_status : p.op = command_id }) <= 1

\* a command was issued for an opcode while the future of the previous
\* command for that opcode was still unresolved
C12_Witness ==
    /\ Len(futures) = 2
    /\ futures[1].op = futures[2].op
    /\ futures[1].state = "pending"
    /\ futures[2].state = "pending"

\* C13: the listing request of download_files, and everything after it, is
\* issued only after GET /gopro/camera/state has succeeded in the same run:
\* in the connection loop of an automatic join (credentials or scan), or in
\* the manual-join loop.
C13_TransferOnlyAfterProbe ==
    (pc \in {"stabilize", "dl_list", "dl_open", "dl_stream"} \/ dlOutcome # "none")
        => probeOk

\* the listing request is issued on Windows, where the join can be automatic
C13_Witness == pc = "dl_list" /\ is_windows /\ probeOk /\ run = 1

\* C14: switch_wifi_windows returns True only when the active network is the
\* requested one and, with verify_gopro, the probe made after that match
\* succeeded; without verify_gopro a name match always returns True; it
\* returns False only once the timeout has elapsed.
C14_TrueOnlyWhenJoinedAndVerified ==
    /\ wl.result = "true" =>
          /\ wl.matched /\ air.joined
          /\ wl.verify_gopro => wl.probe = "ok"
    /\ (wl.pc = "test" /\ ~wl.verify_gopro) => ~wl.matched
    /\ wl.result = "false" => wl.now >= wl.end_time

\* the loop returned True with verify_gopro after an earlier probe had failed
C14_Witness ==
    /\ wl.result = "true" /\ wl.verify_gopro /\ wl.probe = "ok"
    /\ air.scenario = "free" /\ wl.now > LoopClock0 + ProbeTimeout

\* C15: with a connect primitive that fails for the first 3 seconds and then
\* succeeds, and a probe that succeeds once the name matches, the function
\* returns True before the timeout (a timeout that leaves room for the second
\* WlanConnect, sent after connect_spam_interval, and the poll one second
\* later); when the camera's network never becomes reachable it returns
\* False, not later than the timeout.  (The profile step succeeded and the
\* connection loop ran.)
C15_AutoConnectRetry ==
    (wl.pc = "ret" /\ wl.verify_gopro /\ wl.iter >= 1) =>
       /\ (air.scenario = "late" /\ wl.timeout > connect_spam_interval + 1) =>
             wl.result = "true" /\ wl.now < wl.end_time
       /\ air.scenario \in {"never", "unreachable"} =>
             wl.result = "false" /\ wl.now <= wl.end_time

\* __main__ lines 1900-1945: the status passed to sys.exit.  main() returns
\* normally unless its finally block raised; a RuntimeError raised there sets
\* exit_code = 1 (line 1911), any other exception leaves the interpreter
\* with status 1 as well.
ExitCode == IF pc = "raised" THEN 1 ELSE 0

\* C16: the process exits with 1 when a RuntimeError, timeout or ValueError
\* occurred during the run (invalid mode, failed BLE connection, failed
\* enable-network command, ...), and with 0 when the run completed normally
\* or was cancelled.
C16_ExitCode ==
    MainExited =>
        (ExitCode = 1 <=> (mainEnd = "exception" \/ pc = "raised"))

\* the identifier line of section General is commented out, as in
\* DEFAULT_CONFIG, and no active identifier line exists in that section
IdentifierCommentedOut(lines) ==
    /\ \E i \in 1..Len(lines) :
          /\ lines[i] = CommentedKey("identifier", "")
          /\ SectionAt(lines, i) = "General"
    /\ \A i \in 1..Len(lines) :
          (lines[i].t = "key" /\ lines[i].k = "identifier")
              => SectionAt(lines, i) # "General"

\* C17: for a file whose identifier line is commented out, saving
\* General.identifier = ABCD gives a file that reads back ABCD for it, with
\* the same number of lines, of which only the identifier line of General
\* differs.
C17_ConfigRoundTrip ==
    (config_ini.saved /\ IdentifierCommentedOut(config_ini.before)) =>
        /\ ConfigGet(config_ini.lines, "General", "identifier") = "ABCD"
        /\ Len(config_ini.lines) = Len(config_ini.before)
        /\ \A i \in 1..Len(config_ini.before) :
              config_ini.lines[i] # config_ini.before[i] =>
                  /\ config_ini.before[i].k = "identifier"
                  /\ SectionAt(config_ini.before, i) = "General"

\* answers that say yes: the latin and the russian word and their initials
ExplicitYes == {"y", "yes", "ru_d", "ru_da"}

\* C18: delete requests are issued only under policy 'yes', or under 'ask'
\* after the user explicitly confirmed; under 'no', after a refusal, any
\* other key or a timeout of the prompt none is issued.
C18_DeleteOnlyWhenConfirmed ==
    del_frame.sent > 0 =>
        \/ del_frame.delete_after_download = "yes"
        \/ /\ del_frame.delete_after_download = "ask"
           /\ del_frame.answer \in ExplicitYes

\* C19: the network the cleanup reconnects to is the one that was active on
\* the host when the run started (original_ssid).
C19_RestoreTargetsOriginal ==
    (sw.ret = "restore" /\ pc \in {"sw_profile", "sw_loop"})
        => sw.target = original_ssid

\* C20: when the BLE scan matches no device the run ends with nothing to
\* clean: no command was written, the host's network was not changed, no
\* keep-alive task was started, nothing was downloaded, deleted or
\* post-processed, and the cleanup makes no restore attempt.
C20_NothingToCleanWhenNotFound ==
    (mainEnd = "return" /\ ~discovered) =>
        /\ ~ble_written
        /\ ~netChanged /\ sw = NoSw /\ ~connected_to_gopro_wifi
        /\ disk_task = "none" /\ wifi_task = "none" /\ ~sentinel
        /\ requested = << >> /\ dlOutcome = "none"
        /\ deleted = << >>
        /\ postProcessed = 0
        /\ ~RestoreAttempted

\* the run has ended after a scan that matched no device
C20_Witness ==
    /\ MainExited /\ mainEnd = "return" /\ ~discovered /\ is_windows
    /\ hostNet = "Home"

C22_TransportErrorsHandledLocally ==
    dlOutcome # "none" => mainEnd # "exception"

\* C23: delete_files_from_camera issues one delete request per file of its
\* input, in the order of the input, and goes on after a failed request:
\* unless main() is cancelled, the batch ends only after the last file.
C23_OneDeleteRequestPerFile ==
    /\ deleted = SubSeq(files_on_disk_and_camera, 1, delIndex)
    /\ (delIndex >= 1 /\ pc # "delete" /\ mainEnd # "cancelled")
          => delIndex = Len(files_on_disk_and_camera)

\* the first delete request failed (the file is still on the camera) and the
\* second file got its request
C23_Witness ==
    /\ Len(deleted) = 2 /\ pc # "delete" /\ mainEnd # "cancelled"
    /\ deleted[1] \in Range(camera)

\* C24: once the join has been attempted, a run in which no probe succeeded
\* leaves the try body only by the user's 'x' in the manual-join loop or by
\* cancellation: an automatic join that does not succeed never aborts the
\* run.
C24_JoinFailureFallsBackToManual ==
    (wifi_creds = "used" /\ ~probeOk /\ mainEnd \notin {"none", "cancelled"})
        => mainEnd = "return"

\* C25: once the stop signal of a keep-alive supervisor is set, the
\* supervisor issues no further ping or sentinel write: no supervisor ever
\* writes the sentinel or sends a ping while its stop event is set.  (The
\* second half of the claim, that the cleanup's waits are bounded, is
\* C25_CleanupWaitsDoNotHang.)
C25_NoBeatAfterStop == late_beats = {}

\* C25, second half: the cleanup's wait for a supervisor does not hang; when
\* the cleanup has passed the wait for a supervisor, that supervisor is no
\* longer running, whether it stopped by itself or was cancelled by the
\* timeout of the wait
C25_CleanupWaitsDoNotHang ==
    /\ pc \in {"c_wifi", "c_wifi_wait", "c_post", "c_restore"} => ~Running(disk_task)
    /\ pc \in {"c_post", "c_restore"} => ~Running(wifi_task)

\* C26: the stop signals of the two supervisors are one-shot, monotonic and
\* idempotent: a signal is unset as long as its supervisor has not been
\* started, within one run no step clears a signal that is set, and the
\* cleanup step that sets a signal already set changes neither the signal
\* nor the supervisor nor the sentinel
C26_StopSignalsMonotonic ==
    [][ /\ disk_task = "none" => ~stop_disk_keep_alive
        /\ wifi_task = "none" => ~stop_wifi_keep_alive
        /\ run' = run =>
              /\ stop_disk_keep_alive => stop_disk_keep_alive'
              /\ stop_wifi_keep_alive => stop_wifi_keep_alive'
        /\ (pc = "c_disk" /\ pc' # pc /\ stop_disk_keep_alive) =>
              /\ stop_disk_keep_alive'
              /\ UNCHANGED << disk_task, wifi_task, sentinel, stop_wifi_keep_alive >>
        /\ (pc = "c_wifi" /\ pc' # pc /\ stop_wifi_keep_alive) =>
              /\ stop_wifi_keep_alive'
              /\ UNCHANGED << disk_task, wifi_task, sentinel, stop_disk_keep_alive >>
      ]_vars

\* the disk signal was set after the download returned and set again by the
\* cleanup, which has then set the network signal too
C26_Witness ==
    /\ pc = "c_wifi_wait"
    /\ mainEnd = "normal"
    /\ dlOutcome # "none"
    /\ stop_disk_keep_alive /\ stop_wifi_keep_alive
    /\ cleanupLog = << "listener", "power", "disk", "wifi" >>

\* C27: sending a command writes it at most twice.  The second write happens
\* only in the handler of a transport error, after a forced reconnect, and
\* goes to the slot registered at the start of the call (no new future is
\* registered); from the handler the call only moves forward (reconnect,
\* second write, wait for the response) or ends by raising: a failed
\* reconnect or a failed second write is not retried.
C27_WriteRetriedOnce ==
    [][ /\ cmd'.writes <= 2
        /\ cmd'.pc \in {"ensure", "write"} => cmd'.writes = 0
        /\ cmd'.pc \in {"re_ensure", "re_write"} => cmd'.writes <= 1
        /\ cmd'.pc # "idle" => StatusGet(CommandId(cmd.fn))' = cmd'.fut
        /\ cmd.pc # "idle" => cmd'.fut = cmd.fut /\ cmd'.fn = cmd.fn
        /\ (cmd.pc = "re_ensure" /\ cmd' # cmd) =>
              \/ cmd'.pc = "re_write" /\ ble_connected' /\ cmd'.writes = cmd.writes
              \/ cmd'.pc = "idle" /\ cmd'.out = "raised" /\ cmd'.writes = cmd.writes
        /\ (cmd.pc = "re_write" /\ cmd' # cmd) =>
              \/ cmd'.pc = "wait" /\ cmd'.writes = cmd.writes + 1
              \/ cmd'.pc = "idle" /\ cmd'.out = "raised" /\ cmd'.writes = cmd.writes + 1
      ]_vars

\* the first write failed, the client was reconnected, the second write went
\* through and the response resolved the slot registered at the start
C27_Witness ==
    /\ cmd.pc = "idle" /\ cmd.out = "ok" /\ cmd.writes = 2
    /\ StatusGet(CommandId(cmd.fn)) = cmd.fut
    /\ futures[cmd.fut].state = "result"

\* C28: a command whose response never arrives does not block: while a
\* command waits, the response or the 10 s timeout can end the wait; a
\* future is cancelled only by the timeout of its own call, which ends
\* that call as a failure of that command (control_wifi_ap raises, which
\* ends the main sequence at ControlWifiAp; sleep_camera logs and returns,
\* after which Shutdown continues), leaves the cancelled future registered
\* under the opcode until the next call of the command replaces it, and
\* leaves the futures of the other command as they were.
C28_CommandTimeoutDoesNotBlock ==
    /\ cmd.pc = "wait" => ENABLED (CmdResult \/ CmdTimeout)
    /\ \A f \in 1..Len(futures) :
          futures[f].state = "cancelled" =>
             /\ futures[f].op = CommandId(cmd.fn) => f <= cmd.fut
             /\ f = cmd.fut =>
                   /\ cmd.pc = "idle"
                   /\ cmd.out = IF cmd.fn = "control_wifi_ap" THEN "raised"
                                                              ELSE "logged"
                   /\ StatusGet(futures[f].op) = f

\* the power-down command timed out after the enable-network command had
\* been answered: the timeout is logged, the slot of the power-down command
\* holds the cancelled future and the other slot still holds its result
C28_Witness ==
    /\ cmd.fn = "sleep_camera" /\ cmd.pc = "idle" /\ cmd.out = "logged"
    /\ futures[cmd.fut].state = "cancelled"
    /\ StatusGet(COMMAND_ID_SLEEP) = cmd.fut
    /\ SlotKind(COMMAND_ID_SET_WIFI_AP) = "resolved"

\* C29 as stated: connect requests are never issued on consecutive polls,
\* that is, no two successive WlanConnect calls of one connection loop fall
\* in adjacent iterations
C29_NeverOnConsecutivePolls ==
    \A k \in 1..(Len(wl.sent_iter) - 1) :
        wl.sent_iter[k + 1] > wl.sent_iter[k] + 1

\* C29 amended: the connect request is issued on the first iteration and
\* afterwards only when at least connect_spam_interval seconds have passed
\* since the previous issue; the active network name is polled once per
\* iteration, an iteration lasts at least one second, and two requests fall
\* in adjacent iterations only when the iteration between them lasted
\* connect_spam_interval seconds or more; the number of requests is at most
\* the timeout divided by 4 plus one.
C29_ConnectRateLimited ==
    /\ wl.iter >= 1 => (wl.sent # << >> /\ wl.sent_iter[1] = 1 /\ wl.sent[1] = LoopClock0)
    /\ Len(wl.sent) = Len(wl.sent_iter)
    /\ \A k \in 1..(Len(wl.sent) - 1) :
          /\ wl.sent[k + 1] - wl.sent[k] >= connect_spam_interval
          /\ wl.sent_iter[k + 1] - wl.sent_iter[k] <= wl.sent[k + 1] - wl.sent[k]
    /\ wl.polls = (IF wl.pc = "poll" THEN wl.iter - 1 ELSE wl.iter)
    /\ wl.pc # "idle" => wl.now >= LoopClock0 + wl.iter
    /\ Len(wl.sent) <= (wl.timeout \div connect_spam_interval) + 1

\* a loop that issued the request in its first and its second iteration,
\* the first iteration having lasted through a failed verification, and in
\* which the bound on the number of requests is met
C29_Witness ==
    /\ wl.pc = "ret"
    /\ wl.sent_iter = << 1, 2 >>
    /\ wl.sent[2] - wl.sent[1] >= connect_spam_interval
    /\ Len(wl.sent) = (wl.timeout \div connect_spam_interval) + 1

\* C30: after the enable-network command succeeded the control link is
\* disconnected before any scan or join, and no BLE connection is open
\* during joining and transfer; a connection is made again only by the
\* power-down command after the transfer
C30_NoLinkDuringJoinAndTransfer ==
    lk.pc \in {"join", "transfer"} => (lk.open = {} /\ lk.client = 0)

\* C31: a pairing out of sync while notifications are enabled is not retried
\* and is told apart from other failures: connect_ble returns no session
\* without raising, no command was written, the host's network is untouched,
\* nothing of the transfer happened and the run ends through the cleanup
\* by the early return; any other failure of enabling notifications ends
\* the try body with an exception, also before any command is written.
C31_AuthDesyncReturnsNoSession ==
    /\ ble_outcome \in AuthDesyncTexts =>
          /\ mainEnd = "return"
          /\ pc \notin TrySuspensions
          /\ discovered /\ ~ble_written
          /\ ~netChanged /\ sw = NoSw /\ ~connected_to_gopro_wifi
          /\ disk_task = "none" /\ wifi_task = "none"
          /\ requested = << >> /\ dlOutcome = "none" /\ deleted = << >>
    /\ ble_outcome \in NotifyErrorTexts \ AuthDesyncTexts =>
          /\ mainEnd = "exception"
          /\ ~ble_written /\ ~netChanged /\ sw = NoSw

\* the run with the pairing out of sync has left main() through the cleanup
C31_Witness ==
    /\ ble_outcome = "Protocol Error 0x05" /\ MainExited /\ mainEnd = "return"
    /\ is_windows /\ ~powerAwake

\* C32: called without a password, switch_wifi_windows needs a profile
\* saved for the SSID: when none exists it returns False, no WlanConnect was
\* issued, no profile was created or deleted and the active network was
\* not polled.
C32_RestoreNeedsSavedProfile ==
    (wl.pc \in {"test", "poll", "ret"} /\ ~wl.password /\ ~wl.saved0) =>
        /\ wl.pc = "ret" /\ wl.result = "false"
        /\ wl.sent = << >> /\ wl.polls = 0
        /\ wl.profile_ops = << >>
        /\ air.saved = wl.saved0

\* the call without a password and without a saved profile has returned
C32_Witness ==
    /\ wl.pc = "ret" /\ ~wl.password /\ ~wl.saved0 /\ ~wl.verify_gopro
    /\ wl.result = "false"

\* C33 as stated: in mode process_only every run whose cleanup completes
\* has invoked post-processing exactly once
C33_ProcessOnlyPostProcessesOnce ==
    (mode = "process_only" /\ CleanupCompleted) => postProcessed = 1

\* C33 amended: in mode process_only the run performs no discovery, no
\* command, no network change, no keep-alive task, no download, no deletion
\* and no power-down, and the cleanup makes no restore attempt; the cleanup
\* invokes post-processing exactly once when the mode branch was reached
\* and not at all when the run was cancelled before it; with no raw file in
\* the directory no step changes the directory or raises.
C33_ProcessOnlyTouchesNothing ==
    [][ mode = "process_only" =>
          /\ (~discovered /\ ~ble_written /\ ble_outcome = "none")'
          /\ (~netChanged /\ sw = NoSw /\ ~connected_to_gopro_wifi)'
          /\ (disk_task = "none" /\ wifi_task = "none" /\ ~sentinel)'
          /\ (requested = << >> /\ dlOutcome = "none" /\ deleted = << >>)'
          /\ (pc \notin {"connect_ble", "enable_ap", "dl_list", "delete", "shutdown"})'
          /\ (~RestoreAttempted)'
          /\ (mainEnd \in {"none", "normal", "cancelled"})'
          /\ (pc \in {"c_restore", "done"} =>
                 postProcessed = (IF mainEnd = "normal" THEN 1 ELSE 0))'
          /\ (run' = run /\ localFiles \cap RawNames = {}) =>
                 (localFiles' = localFiles /\ pc' # "raised")
      ]_vars

\* a process_only run over a directory without raw files has finished: the
\* post-processing was invoked once and left the directory as it was
C33_Witness ==
    /\ mode = "process_only" /\ CleanupCompleted /\ mainEnd = "normal"
    /\ postProcessed = 1 /\ localFiles = {}
    /\ cleanupLog = << "listener", "power", "post" >>

\* the destination directory holds the content of remote file f: a file of
\* its name was there when the listing was made, or f is the last file of
\* its name that this run streamed to the end (local_path is
\* output_path / filename, line 496: a later file of the same name from
\* another camera directory is written over it)
HasLocalCopy(f) ==
    \/ f.n \in localAtList
    \/ \E k \in 1..Len(downloaded_files_meta) :
          /\ downloaded_files_meta[k] = f
          /\ \A j \in (k + 1)..Len(downloaded_files_meta) :
                downloaded_files_meta[j].n # f.n

\* C34, first half: every remote file for which a delete request was issued
\* is in the deletion set, and a file of its name is in the destination
\* directory as long as the cleanup has not post-processed it
C34_DeletedNamesOnDisk ==
    \A i \in 1..Len(deleted) :
        /\ deleted[i] = files_on_disk_and_camera[i]
        /\ postProcessed = 0 => deleted[i].n \in localFiles

\* C34: no remote file without a local copy is ever deleted: every remote
\* file for which a delete request was issued has its content in the
\* destination directory
C34_DeletedFilesHaveLocalCopy ==
    \A i \in 1..Len(deleted) : HasLocalCopy(deleted[i])

\* C35: no delete request is issued in a run whose transfer did not fully
\* complete: after a failed listing, a failed download, an exception out of
\* download_files or a cancellation during the transfer,
\* all_downloads_completed is false, the deletion set is never computed,
\* the deletion step is not entered and no delete request was issued.
C35_NoDeletionAfterIncompleteTransfer ==
    /\ dlOutcome \in {"failed", "raised", "cancelled"} =>
          /\ ~all_downloads_completed
          /\ files_on_disk_and_camera = << >>
          /\ pc \notin {"ask_delete", "pre_delete_ping", "delete"}
          /\ delIndex = 0 /\ deleted = << >>
    /\ (deleted # << >> \/ pc \in {"ask_delete", "pre_delete_ping", "delete"}) =>
          all_downloads_completed /\ dlOutcome = "complete"

\* the second download failed with the first file on disk and on the
\* camera; the run has finished without a delete request
C35_Witness ==
    /\ dlOutcome = "failed" /\ downloaded_count = 1 /\ CleanupCompleted
    /\ all_files_on_camera_meta # << >>
    /\ all_files_on_camera_meta[1].n \in localFiles
    /\ deleted = << >>

\* C36: the future of a command is registered under its opcode before the
\* command is written, and stays registered and live until the call ends:
\* from the first write attempt on (through the reconnect, the second write
\* and the wait) a response frame for the opcode finds the call's future;
\* while it is pending the handler resolves it with the frame's status,
\* once it is resolved the wait can return it.  No step between write and
\* notification leaves the opcode without the call's future.
C36_SlotRegisteredBeforeWrite ==
    cmd.pc # "idle" =>
       /\ StatusGet(CommandId(cmd.fn)) = cmd.fut
       /\ futures[cmd.fut].state \in {"pending", "result"}
       /\ futures[cmd.fut].state = "pending" =>
             \A status \in Statuses :
                NotificationHandler(CommandId(cmd.fn), status)[cmd.fut] =
                   [op |-> CommandId(cmd.fn), state |-> "result", status |-> status]
       /\ (cmd.pc = "wait" /\ futures[cmd.fut].state = "result") => ENABLED CmdResult

\* the response to the first write arrived while the call was reconnecting
\* for the retry, and resolved the call's future
C36_Witness ==
    /\ cmd.pc \in {"re_ensure", "re_write"} /\ cmd.writes = 1
    /\ futures[cmd.fut].state = "result"
    /\ StatusGet(CommandId(cmd.fn)) = cmd.fut

\* the finally block is past the stop of the listener (line 1841)
CleanupBegun ==
    \/ pc \in {"c_power", "c_disk", "c_disk_wait", "c_wifi", "c_wifi_wait",
               "c_post", "c_restore", "done", "raised"}
    \/ sw.ret = "restore"

\* C37: the cancel key cancels the main task at most once per run and never
\* after the cleanup has begun: the step in which the listener cancels the
\* main task is taken inside the try body and ends the listener, which does
\* not run again in that run; once the cleanup is past its first action the
\* listener is not running and no cancellation is pending.
C37_EscapeOnlyBeforeCleanup ==
    [][ /\ (listener = "running" /\ listener' = "done" /\ cancelPending') =>
              (InTry /\ ~cancelPending)
        /\ (listener = "done" /\ run' = run) => listener' = "done"
        /\ CleanupBegun' => (listener' # "running" /\ ~cancelPending')
      ]_vars

\* Escape was pressed while a file was streamed; the cleanup has completed
C37_Witness ==
    /\ is_windows /\ listener = "done" /\ mainEnd = "cancelled"
    /\ cancelledFile # "" /\ CleanupCompleted
    /\ cleanupLog[1] = "listener"

\* C38: when the command that enables the camera's access point fails (a
\* non-zero status, no response in time, the write failing again in the
\* retry), the run is in its cleanup or over, ended by the exception; no
\* network join was requested, no keep-alive task was started, no HTTP
\* request was issued, the host's network is the one it was and no restore
\* is attempted.
C38_ApFailureLeavesNetworkAlone ==
    ap_outcome \in ApFailures =>
        /\ mainEnd = "exception"
        /\ pc = "c_listener" \/ CleanupBegun
        /\ sw = NoSw /\ ~connected_to_gopro_wifi
        /\ ~netChanged /\ ~probeOk
        /\ disk_task = "none" /\ wifi_task = "none" /\ late_beats = {}
        /\ requested = << >> /\ deleted = << >>
        /\ dlOutcome = "none"
        /\ ~RestoreAttempted

\* the command got no response in time on Windows, and the run is over
C38_Witness ==
    /\ ap_outcome = "timeout" /\ is_windows /\ hostNet = "Home"
    /\ CleanupCompleted /\ ble_written

\* C39: after the main task is cancelled no further device operation is
\* issued in the run: once the listener has cancelled the main task (it ends
\* doing so), main() takes no further step of the try body, which would
\* lead to the join, the download requests, the delete requests and the
\* power-down command; the try body is only left by the cancellation.
C39_NoDeviceOperationAfterCancel ==
    (listener = "done" /\ InTry) => cancelPending

\* the first n elements of a sequence
Prefix(seq, n) == SubSeq(seq, 1, n)

\* C40: in every state of download_files the downloaded count is the length
\* of the downloaded-files list; the listed files are the files of the
\* pending set whose stream has ended complete, which are the first ones of
\* it, the file being attempted coming next and not being listed; the
\* download requests follow the order of the pending set, itself in listing
\* order; and the result main() receives reports full completion only with
\* the count equal to the size of the pending set.
C40_DownloadBookkeeping ==
    /\ dl_downloaded_count = Len(dl_downloaded_files_meta)
    /\ dl_downloaded_count <= Len(files_to_download)
    /\ dl_downloaded_files_meta = Prefix(files_to_download, dl_downloaded_count)
    /\ files_to_download = FilesToDownload(dl_all_files_on_camera_meta, localAtList)
    /\ requested = Prefix(files_to_download, Len(requested))
    /\ pc \in {"dl_open", "dl_stream"} =>
          /\ dlIndex = dl_downloaded_count + 1
          /\ Len(requested) = dlIndex
          /\ (partial # "") = (pc = "dl_stream")
          /\ partial # "" => partial = files_to_download[dlIndex].n
    /\ Len(requested) \in {dl_downloaded_count, dl_downloaded_count + 1}
    /\ (dlOutcome # "none" /\ all_downloads_completed) =>
          /\ dlOutcome = "complete"
          /\ downloaded_count = Len(files_to_download)
          /\ downloaded_files_meta = files_to_download
    /\ dlOutcome = "failed" =>
          (~all_downloads_completed /\ downloaded_count = dl_downloaded_count)

\* the first file was streamed completely, the second is being streamed
C40_Witness ==
    /\ pc = "dl_stream" /\ dlIndex = 2 /\ dl_downloaded_count = 1
    /\ dl_downloaded_files_meta = << files_to_download[1] >>
    /\ partial = files_to_download[2].n
====
